---- MODULE Spec2Model ----
(***************************************************************************)
(* Model of the persistence layer of anonim-bot (src/db.py) and of the     *)
(* handlers that drive it (src/handlers/*.py).                             *)
(*                                                                         *)
(* Every handler is an asyncio task.  Each `await conn.fetch.../execute`   *)
(* is one SQL statement run in autocommit mode on a pooled connection: it  *)
(* is atomic by itself, and other tasks run between two statements.  A     *)
(* request is therefore modelled as a process whose program counter steps  *)
(* from one SQL statement to the next.                                     *)
(*                                                                         *)
(* The tables are the variables.  The subsystems (pairing, accounts and    *)
(* referral, purchases, ledger, payments) have one specification each.     *)
(***************************************************************************)
EXTENDS Integers, FiniteSets, Sequences, TLC

\* ------------------------------------------------------------ bounds
NUsers == 3
NReq == 2

Users == 1..NUsers
Req == 1..NReq
NoUser == 0

\* =====================================================================
\* Pairing: chat_queue, chat_connections, /find_chat and /end_chat
\* =====================================================================

VARIABLES
  chat_queue,        \* [Users -> Nat]: number of chat_queue rows per user_id
  chat_connections,  \* set of rows <<user1_id, user2_id>>
  hpc,               \* [Req -> STRING]: the statement a chat request is at
  huser,             \* [Req -> Users \cup {NoUser}]: message.from_user.id
  hpartner,          \* [Req -> Users \cup {NoUser}]: local partner_id
  hres               \* [Req -> STRING]: what the request's last call returned

chatVars == <<chat_queue, chat_connections, hpc, huser, hpartner, hres>>

\* =====================================================================
\* Accounts and referral: the users table, /start ref_<code>
\* =====================================================================

VARIABLES
  users,      \* set of rows of the users table (records, see NewUserRow)
  clock,      \* the server's local time datetime.now(), in minutes
  tz_offset,  \* minutes by which Asia/Tashkent is ahead of the server's zone
  sreq        \* [Req -> record]: the /start requests and their locals

userVars == <<users, clock, tz_offset, sreq>>

\* =====================================================================
\* Purchases, ledger and payments
\* =====================================================================

VARIABLES
  subscriptions,  \* set of rows of the subscriptions table
  sub_seq,        \* the next value of subscriptions.id (SERIAL)
  sub_expected,   \* history: [Users -> end date the purchases made add up to]
  payments,       \* set of rows of the payments table
  pay_seq,        \* the next value of payments.id (SERIAL)
  preq,           \* [Req -> record]: the purchase requests and their locals
  lreq,           \* [Req -> record]: update_user_balance calls in flight
  ledger_log,     \* history: the update_user_balance calls, in the order executed
  users_at_start, \* history: the users table of the initial state
  pay_call        \* the last payments call made directly, and what it returned

subVars == <<subscriptions, sub_seq, sub_expected, preq>>
payVars == <<payments, pay_seq, pay_call>>
ledgerVars == <<lreq, ledger_log, users_at_start>>

\* =====================================================================
\* Bans, and the calls made to db.py directly, one at a time
\* =====================================================================

VARIABLES
  muted_users,  \* set of rows of the muted_users table
  breq,         \* [Req -> record]: the is_user_banned calls and their locals
  chat_call,    \* the last pairing function called directly, and its return
  sub_calls     \* the number of activate_subscription calls made directly

callVars == <<muted_users, breq, chat_call, sub_calls>>

vars == <<chatVars, userVars, subVars, payVars, ledgerVars, callVars>>

notChatVars == <<userVars, subVars, payVars, ledgerVars, callVars>>
notUserVars == <<chatVars, subVars, payVars, ledgerVars, callVars>>

\* --- queries of the two tables

\* SELECT ... FROM chat_queue WHERE user_id = u
InQueue(u) == chat_queue[u] > 0

\* SELECT ... FROM chat_connections WHERE user1_id = u OR user2_id = u
ConnRowsOf_User1(u) == {c \in chat_connections : c[1] = u}
ConnRowsOf(u) == {c \in chat_connections : c[1] = u \/ c[2] = u}

\* CASE WHEN user1_id = u THEN user2_id ELSE user1_id END
PartnerIn_User2(c, u) == c[2]
PartnerIn(c, u) == IF c[1] = u THEN c[2] ELSE c[1]

\* --- constraints of the schema

\* chat_queue.user_id is the PRIMARY KEY
QueueInsertOk_NoKey(u) == TRUE
QueueInsertOk(u) == chat_queue[u] = 0

\* chat_connections has UNIQUE(user1_id, user2_id), an ordered pair
ConnInsertOk(u, p) == <<u, p>> \notin chat_connections

\* --- the tables after the DELETE statements

\* DELETE FROM chat_queue WHERE user_id IN (u, p)   (db.py 1107)
QueueAfterMatch_PartnerOnly(u, p) ==
  [x \in Users |-> IF x = p THEN 0 ELSE chat_queue[x]]
QueueAfterMatch(u, p) ==
  [x \in Users |-> IF x \in {u, p} THEN 0 ELSE chat_queue[x]]

\* DELETE FROM chat_connections WHERE (user1_id = u AND user2_id = p)
\*    OR (user1_id = p AND user2_id = u)   (db.py 1153-1156)
ConnsAfterEnd_OneOrder(u, p) == chat_connections \ {<<u, p>>}
ConnsAfterEnd(u, p) == chat_connections \ {<<u, p>>, <<p, u>>}

\* --- request bookkeeping

HStep(r, at, to, res) ==
  /\ UNCHANGED notChatVars
  /\ hpc[r] = at
  /\ hpc' = [hpc EXCEPT ![r] = to]
  /\ hres' = [hres EXCEPT ![r] = res]

InitChat ==
  /\ chat_queue = [u \in Users |-> 0]
  /\ chat_connections = {}
  /\ hpc = [r \in Req |-> "idle"]
  /\ huser = [r \in Req |-> NoUser]
  /\ hpartner = [r \in Req |-> NoUser]
  /\ hres = [r \in Req |-> "none"]

\* --- find_chat_handler

\* chat_handlers.py 29-43: a /find_chat update arrives (the sender is not
\* banned: the pairing specification holds no ban records).
find_chat_handler(r, u) ==
  /\ HStep(r, "idle", "fch_get_partner", "none")
  /\ huser' = [huser EXCEPT ![r] = u]
  /\ UNCHANGED <<chat_queue, chat_connections, hpartner>>

\* chat_handlers.py 46-52: get_chat_partner; the account row exists, so
\* get_or_create_user finds it.
fch_get_chat_partner(r) ==
  /\ hpc[r] = "fch_get_partner"
  /\ IF ConnRowsOf(huser[r]) # {}
       THEN HStep(r, "fch_get_partner", "done", "already_in_chat")
       ELSE HStep(r, "fch_get_partner", "atq_chat", "none")
  /\ UNCHANGED <<chat_queue, chat_connections, huser, hpartner>>

\* db.py 1072-1078
add_to_chat_queue_chat(r) ==
  /\ hpc[r] = "atq_chat"
  /\ IF ConnRowsOf(huser[r]) # {}
       THEN HStep(r, "atq_chat", "done", "already_in_chat")
       ELSE HStep(r, "atq_chat", "atq_queue", "none")
  /\ UNCHANGED <<chat_queue, chat_connections, huser, hpartner>>

\* db.py 1081-1083
add_to_chat_queue_queue(r) ==
  /\ hpc[r] = "atq_queue"
  /\ IF InQueue(huser[r])
       THEN HStep(r, "atq_queue", "done", "already_in_queue")
       ELSE HStep(r, "atq_queue", "atq_insert", "none")
  /\ UNCHANGED <<chat_queue, chat_connections, huser, hpartner>>

\* db.py 1086-1087: the INSERT; a second row for the key raises
\* UniqueViolationError, which nothing catches.
add_to_chat_queue_insert(r) ==
  /\ hpc[r] = "atq_insert"
  /\ IF QueueInsertOk(huser[r])
       THEN /\ chat_queue' = [chat_queue EXCEPT ![huser[r]] = @ + 1]
            /\ HStep(r, "atq_insert", "fcp_select", "added")
       ELSE /\ UNCHANGED chat_queue
            /\ HStep(r, "atq_insert", "error", "queue_pkey_violation")
  /\ UNCHANGED <<chat_connections, huser, hpartner>>

\* db.py 1097-1102 and 1115: ORDER BY RANDOM() LIMIT 1 is any other waiter.
find_chat_partner_select(r) ==
  /\ hpc[r] = "fcp_select"
  /\ IF \E p \in Users : p # huser[r] /\ InQueue(p)
       THEN \E p \in Users :
              /\ p # huser[r]
              /\ InQueue(p)
              /\ hpartner' = [hpartner EXCEPT ![r] = p]
              /\ HStep(r, "fcp_select", "fcp_delete", "none")
       ELSE /\ UNCHANGED hpartner
            /\ HStep(r, "fcp_select", "done", "not_found")
  /\ UNCHANGED <<chat_queue, chat_connections, huser>>

\* db.py 1107: DELETE FROM chat_queue WHERE user_id IN (user_id, partner_id)
find_chat_partner_delete(r) ==
  /\ HStep(r, "fcp_delete", "fcp_insert", "none")
  /\ chat_queue' = QueueAfterMatch(huser[r], hpartner[r])
  /\ UNCHANGED <<chat_connections, huser, hpartner>>

\* db.py 1109-1113: the INSERT of the session row.
find_chat_partner_insert(r) ==
  /\ hpc[r] = "fcp_insert"
  /\ IF ConnInsertOk(huser[r], hpartner[r])
       THEN /\ chat_connections' = chat_connections \cup {<<huser[r], hpartner[r]>>}
            /\ HStep(r, "fcp_insert", "fch_notify", "found")
       ELSE /\ UNCHANGED chat_connections
            /\ HStep(r, "fcp_insert", "error", "conn_unique_violation")
  /\ UNCHANGED <<chat_queue, huser, hpartner>>

\* db.py 1109-1112: the statement fails in the store (connection lost);
\* find_chat_partner has no try/except and no transaction around 1107-1112.
find_chat_partner_insert_fails(r) ==
  /\ HStep(r, "fcp_insert", "error", "storage_failure")
  /\ UNCHANGED <<chat_queue, chat_connections, huser, hpartner>>

\* chat_handlers.py 73-86: both users are told.
fch_notify(r) ==
  /\ HStep(r, "fch_notify", "done", "found")
  /\ UNCHANGED <<chat_queue, chat_connections, huser, hpartner>>

\* chat_handlers.py 87-89: send_message raised; remove_from_chat_queue.
fch_notify_fails(r) ==
  /\ HStep(r, "fch_notify", "ec_select", "notify_failed")
  /\ chat_queue' = [chat_queue EXCEPT ![huser[r]] = 0]
  /\ UNCHANGED <<chat_connections, huser, hpartner>>

\* --- end_chat (db.py 1133-1159)

\* db.py 1140-1151, 1159: fetchrow returns one of the user's rows.
end_chat_select(r) ==
  /\ hpc[r] = "ec_select"
  /\ IF ConnRowsOf(huser[r]) # {}
       THEN \E c \in ConnRowsOf(huser[r]) :
              /\ hpartner' = [hpartner EXCEPT ![r] = PartnerIn(c, huser[r])]
              /\ HStep(r, "ec_select", "ec_delete", hres[r])
       ELSE /\ hpartner' = [hpartner EXCEPT ![r] = NoUser]
            /\ HStep(r, "ec_select", "done", "not_ended")
  /\ UNCHANGED <<chat_queue, chat_connections, huser>>

\* db.py 1153-1157
end_chat_delete(r) ==
  /\ HStep(r, "ec_delete", "done", "ended")
  /\ chat_connections' = ConnsAfterEnd(huser[r], hpartner[r])
  /\ UNCHANGED <<chat_queue, huser, hpartner>>

\* --- end_chat_handler (chat_handlers.py 98-138)

end_chat_handler(r, u) ==
  /\ HStep(r, "idle", "ech_get_partner", "none")
  /\ huser' = [huser EXCEPT ![r] = u]
  /\ UNCHANGED <<chat_queue, chat_connections, hpartner>>

\* chat_handlers.py 105-107, 121
ech_get_chat_partner(r) ==
  /\ hpc[r] = "ech_get_partner"
  /\ IF ConnRowsOf(huser[r]) # {}
       THEN HStep(r, "ech_get_partner", "ec_select", "none")
       ELSE HStep(r, "ech_get_partner", "ech_in_queue", "none")
  /\ UNCHANGED <<chat_queue, chat_connections, huser, hpartner>>

\* chat_handlers.py 109-118
ech_in_queue(r) ==
  /\ hpc[r] = "ech_in_queue"
  /\ IF InQueue(huser[r])
       THEN HStep(r, "ech_in_queue", "ech_remove", "none")
       ELSE HStep(r, "ech_in_queue", "done", "not_in_chat")
  /\ UNCHANGED <<chat_queue, chat_connections, huser, hpartner>>

\* chat_handlers.py 113 and db.py 1162-1165
remove_from_chat_queue(r) ==
  /\ HStep(r, "ech_remove", "done", "left_queue")
  /\ chat_queue' = [chat_queue EXCEPT ![huser[r]] = 0]
  /\ UNCHANGED <<chat_connections, huser, hpartner>>

\* The handler has returned or raised: the task ends.
chat_request_ends(r) ==
  /\ hpc[r] \in {"done", "error"}
  /\ hpc' = [hpc EXCEPT ![r] = "idle"]
  /\ huser' = [huser EXCEPT ![r] = NoUser]
  /\ hpartner' = [hpartner EXCEPT ![r] = NoUser]
  /\ hres' = [hres EXCEPT ![r] = "none"]
  /\ UNCHANGED <<chat_queue, chat_connections>>
  /\ UNCHANGED notChatVars

NextChat ==
  \E r \in Req :
    \/ \E u \in Users : find_chat_handler(r, u)
    \/ fch_get_chat_partner(r)
    \/ add_to_chat_queue_chat(r)
    \/ add_to_chat_queue_queue(r)
    \/ add_to_chat_queue_insert(r)
    \/ find_chat_partner_select(r)
    \/ find_chat_partner_delete(r)
    \/ find_chat_partner_insert(r)
    \/ find_chat_partner_insert_fails(r)
    \/ fch_notify(r)
    \/ fch_notify_fails(r)
    \/ end_chat_select(r)
    \/ end_chat_delete(r)
    \/ \E u \in Users : end_chat_handler(r, u)
    \/ ech_get_chat_partner(r)
    \/ ech_in_queue(r)
    \/ remove_from_chat_queue(r)
    \/ chat_request_ends(r)


\* =====================================================================
\* Accounts and referral
\* =====================================================================

MaxClock == 2
TickMinutes == 2

\* The accounts that send /start: the referrer and the newcomers.
NStartUsers == 2
StartUsers == 1..NStartUsers

Tokens == {"t1", "t2", "t3"}
NoToken == "no_token"
Names == {"n1", "n2"}
Codes == {"R1", "R2"}
NoCode == "no_code"

\* db.py 907-908: "Add 10 soums to referrer's balance"
ReferralBonus == 10

\* process_referral's grace window, timedelta(minutes=1)
GraceMinutes == 1

\* INSERT INTO users (user_id, username, name, token, created_at): the other
\* columns take their DEFAULTs (db.py 102-126).
NewUserRow(u, name, token, created) ==
  [user_id |-> u, name |-> name, token |-> token, created_at |-> created,
   balance |-> 0, total_deposited |-> 0, is_premium |-> FALSE,
   is_hidden |-> FALSE, referral_code |-> NoCode, referral_by |-> NoUser]

\* SELECT ... FROM users WHERE user_id = u
RowsOf(u) == {w \in users : w.user_id = u}

\* SELECT ... FROM users WHERE referral_code = c
RowsWithCode(c) == {w \in users : w.referral_code = c}

\* users.user_id is the PRIMARY KEY and users.token is UNIQUE
UsersInsertOk_NoKey(u, token) == \A w \in users : w.token # token
UsersInsertOk_NoTokenKey(u, token) == \A w \in users : w.user_id # u
UsersInsertOk(u, token) == \A w \in users : w.user_id # u /\ w.token # token

\* datetime.now(ZoneInfo(TIMEZONE)).replace(tzinfo=None)
TashkentNow == clock + tz_offset

\* UPDATE users SET balance = balance + amount [, total_deposited = ...]
\* WHERE user_id = u  (update_user_balance, db.py 696-707)
SetBalance(w, amount, add_to_total) ==
  [w EXCEPT !.balance = amount,
            !.total_deposited = IF add_to_total THEN @ + amount ELSE @]
AddToBalance_AlwaysTotal(w, amount, add_to_total) ==
  [w EXCEPT !.balance = @ + amount, !.total_deposited = @ + amount]
AddToBalance(w, amount, add_to_total) ==
  [w EXCEPT !.balance = @ + amount,
            !.total_deposited = IF add_to_total THEN @ + amount ELSE @]

UsersAfterBalanceUpdate(u, amount, add_to_total) ==
  {IF w.user_id = u THEN AddToBalance(w, amount, add_to_total) ELSE w : w \in users}

\* UPDATE users SET username = $1, name = $2 WHERE user_id = $3
\* (get_or_create_user, db.py 1045-1049)
RenameRow_SetsHidden(w, name) == [w EXCEPT !.name = name, !.is_hidden = TRUE]
RenameRow(w, name) == [w EXCEPT !.name = name]

\* How a call of process_referral made directly is recorded: its code argument,
\* the users table when it was made, and the call made just before it.
NoReferralCall ==
  [direct |-> FALSE, code |-> NoCode, before |-> {},
   prev |-> [user |-> NoUser, code |-> NoCode, res |-> "none"]]

IdleStart ==
  [pc |-> "idle", user |-> NoUser, name |-> "n1", code |-> NoCode,
   existing |-> FALSE, token |-> NoToken, is_new |-> FALSE,
   referrer |-> NoUser, notified |-> FALSE, res |-> "none",
   call |-> NoReferralCall]

\* Account 1 joined ten minutes ago and has asked for its referral link; the
\* server runs in UTC or in Asia/Tashkent.
InitUsers ==
  /\ tz_offset \in {0, 300}
  /\ clock = 0
  /\ users = {[NewUserRow(1, "n1", "t1", tz_offset - 10)
                 EXCEPT !.referral_code = "R1"]}
  /\ sreq = [r \in Req |-> IdleStart]

\* Two accounts joined ten minutes ago and own the codes R1 and R2; the host
\* runs in the zone of the stored times.
InitReferrers ==
  /\ tz_offset = 0
  /\ clock = 0
  /\ users = {[NewUserRow(1, "n1", "t1", -10) EXCEPT !.referral_code = "R1"],
              [NewUserRow(NUsers, "n1", "t3", -10)
                 EXCEPT !.referral_code = "R2"]}
  /\ sreq = [r \in Req |-> IdleStart]

\* Every account has sent /start before (the state the pairing, purchase and
\* ledger specifications start from).
TokenOf(u) == <<"t1", "t2", "t3", "t4", "t5", "t6">>[u]

InitAccounts ==
  /\ tz_offset = 0
  /\ clock = 0
  /\ users = {NewUserRow(u, "n1", TokenOf(u), -10) : u \in Users}
  /\ sreq = [r \in Req |-> IdleStart]

SStep(r, at, new) ==
  /\ UNCHANGED notUserVars
  /\ UNCHANGED tz_offset
  /\ sreq[r].pc = at
  /\ sreq' = [sreq EXCEPT ![r] = new]

\* Time passes.
Tick ==
  /\ clock + TickMinutes <= MaxClock
  /\ clock' = clock + TickMinutes
  /\ UNCHANGED <<users, tz_offset, sreq>>
  /\ UNCHANGED notUserVars

\* user_handlers.py 29-40: /start ref_<code> arrives with the sender's
\* current display name.
start_handler(r, u, name, code) ==
  /\ SStep(r, "idle", [IdleStart EXCEPT !.pc = "sh_existing", !.user = u,
                                        !.name = name, !.code = code])
  /\ UNCHANGED <<users, clock>>

\* user_handlers.py 44-61: SELECT user_id, referral_by FROM users
start_handler_existing(r) ==
  /\ SStep(r, "sh_existing",
           [sreq[r] EXCEPT !.pc = "goc_select",
                           !.existing = (RowsOf(sreq[r].user) # {})])
  /\ UNCHANGED <<users, clock>>

\* What start_handler does once get_or_create_user has returned
\* (user_handlers.py 50-61).
AfterGetOrCreate(q) == IF q.existing THEN "done" ELSE "pr_info"

\* get_or_create_user returns (token, is_new); its arguments are dead then.
Returned(q, token, is_new) ==
  [q EXCEPT !.pc = AfterGetOrCreate(q), !.token = token, !.is_new = is_new,
            !.name = IdleStart.name, !.existing = FALSE,
            !.code = IF q.existing THEN NoCode ELSE @]

\* process_referral returns res.
ReferralReturns(q, res) ==
  [q EXCEPT !.pc = "done", !.res = res, !.code = NoCode, !.referrer = NoUser]

\* db.py 1041-1050: the row is read; its token is returned when username and
\* name are unchanged.
get_or_create_user_select(r) ==
  /\ sreq[r].pc = "goc_select"
  /\ IF RowsOf(sreq[r].user) # {}
       THEN \E w \in RowsOf(sreq[r].user) :
              IF w.name # sreq[r].name
                THEN SStep(r, "goc_select",
                           [sreq[r] EXCEPT !.pc = "goc_update", !.token = w.token])
                ELSE SStep(r, "goc_select", Returned(sreq[r], w.token, FALSE))
       ELSE SStep(r, "goc_select", [sreq[r] EXCEPT !.pc = "goc_insert"])
  /\ UNCHANGED <<users, clock>>

\* db.py 1045-1050
get_or_create_user_update(r) ==
  /\ SStep(r, "goc_update", Returned(sreq[r], sreq[r].token, FALSE))
  /\ users' = {IF w.user_id = sreq[r].user THEN RenameRow(w, sreq[r].name)
               ELSE w : w \in users}
  /\ UNCHANGED clock

\* db.py 1055-1063: generate_token() draws any token; the INSERT raises
\* UniqueViolationError when the key or the token is taken.
get_or_create_user_insert(r) ==
  /\ sreq[r].pc = "goc_insert"
  /\ \E t \in Tokens :
       IF UsersInsertOk(sreq[r].user, t)
         THEN /\ users' = users \cup
                    {NewUserRow(sreq[r].user, sreq[r].name, t, TashkentNow)}
              /\ SStep(r, "goc_insert", Returned(sreq[r], t, TRUE))
         ELSE /\ UNCHANGED users
              /\ SStep(r, "goc_insert",
                       [IdleStart EXCEPT !.pc = "error", !.user = sreq[r].user,
                                         !.res = "users_unique_violation"])
  /\ UNCHANGED clock

\* db.py 879-881: "If user already has a referrer, don't process"
AlreadyReferred_Never(w) == FALSE
AlreadyReferred(w) == w.referral_by # NoUser

\* db.py 866-889: the checks on the new account's row.
process_referral_info(r) ==
  /\ sreq[r].pc = "pr_info"
  /\ IF RowsOf(sreq[r].user) = {}
       THEN SStep(r, "pr_info", ReferralReturns(sreq[r], "False"))
       ELSE \E w \in RowsOf(sreq[r].user) :
              IF \/ AlreadyReferred(w)
                 \/ clock - w.created_at > GraceMinutes
                THEN SStep(r, "pr_info",
                           ReferralReturns(sreq[r], "False"))
                ELSE SStep(r, "pr_info", [sreq[r] EXCEPT !.pc = "pr_referrer"])
  /\ UNCHANGED <<users, clock>>

\* db.py 892-900: get_user_by_referral_code and the self-referral check.
process_referral_referrer(r) ==
  /\ sreq[r].pc = "pr_referrer"
  /\ IF RowsWithCode(sreq[r].code) = {}
       THEN SStep(r, "pr_referrer", ReferralReturns(sreq[r], "False"))
       ELSE \E w \in RowsWithCode(sreq[r].code) :
              IF w.user_id = sreq[r].user
                THEN SStep(r, "pr_referrer",
                           ReferralReturns(sreq[r], "False"))
                ELSE SStep(r, "pr_referrer",
                           [sreq[r] EXCEPT !.pc = "pr_set", !.code = NoCode,
                                           !.referrer = w.user_id])
  /\ UNCHANGED <<users, clock>>

\* db.py 903-905: UPDATE users SET referral_by = $1 WHERE user_id = $2
process_referral_set(r) ==
  /\ SStep(r, "pr_set", [sreq[r] EXCEPT !.pc = "pr_credit"])
  /\ users' = {IF w.user_id = sreq[r].user
                 THEN [w EXCEPT !.referral_by = sreq[r].referrer]
                 ELSE w : w \in users}
  /\ UNCHANGED clock

\* db.py 908: update_user_balance(pool, referrer_id, 10.00, add_to_total=False)
process_referral_credit(r) ==
  /\ SStep(r, "pr_credit", [sreq[r] EXCEPT !.pc = "pr_notify"])
  /\ users' = UsersAfterBalanceUpdate(sreq[r].referrer, ReferralBonus, FALSE)
  /\ UNCHANGED clock

\* db.py 911-926: the notification is sent, or its failure is caught.
\* db.py 923-924: "except Exception as e: print(...)"; the call goes on to
\* return True.
NotificationFailed_Raises(q) ==
  [IdleStart EXCEPT !.pc = "error", !.user = q.user,
                    !.res = "send_message_failed"]
NotificationFailed(q) ==
  [ReferralReturns(q, "True") EXCEPT !.notified = FALSE]

process_referral_notify(r) ==
  /\ \/ SStep(r, "pr_notify", [ReferralReturns(sreq[r], "True")
                                 EXCEPT !.notified = TRUE])
     \/ SStep(r, "pr_notify", NotificationFailed(sreq[r]))
  /\ UNCHANGED <<users, clock>>

\* The handler has replied or raised: the task ends.
start_request_ends(r) ==
  /\ sreq[r].pc \in {"done", "error"}
  /\ sreq' = [sreq EXCEPT ![r] = IdleStart]
  /\ UNCHANGED <<users, clock, tz_offset>>
  /\ UNCHANGED notUserVars

NextStart ==
  \/ Tick
  \/ \E r \in Req :
       \/ \E u \in StartUsers, n \in Names, c \in Codes :
            start_handler(r, u, n, c)
       \/ start_handler_existing(r)
       \/ get_or_create_user_select(r)
       \/ get_or_create_user_update(r)
       \/ get_or_create_user_insert(r)
       \/ process_referral_info(r)
       \/ process_referral_referrer(r)
       \/ process_referral_set(r)
       \/ process_referral_credit(r)
       \/ process_referral_notify(r)
       \/ start_request_ends(r)


\* ---------------------------------------------------------------------
\* process_referral called directly, one call after the other
\* ---------------------------------------------------------------------

\* Account 1 joined ten minutes ago and owns the code R1.  Account 2 has just
\* been created by get_or_create_user, or joined ten minutes ago, and may own
\* the code R2.  Account 3 has just been created.
InitReferral ==
  /\ tz_offset \in {0, 300}
  /\ clock = 0
  /\ \E created \in {tz_offset, tz_offset - 10}, code \in {"R2", NoCode} :
       users = {[NewUserRow(1, "n1", "t1", tz_offset - 10)
                   EXCEPT !.referral_code = "R1"],
                [NewUserRow(2, "n1", "t2", created)
                   EXCEPT !.referral_code = code],
                NewUserRow(3, "n1", "t3", tz_offset)}
  /\ sreq = [r \in Req |-> IdleStart]

\* db.py 859: process_referral(pool, new_user_id, referral_code, bot) is
\* called once the call before it has returned.
process_referral(r, u, code) ==
  /\ sreq[r].pc \in {"idle", "done"}
  /\ \A q \in Req \ {r} : sreq[q].pc = "idle"
  /\ sreq' = [sreq EXCEPT ![r] =
       [IdleStart EXCEPT
          !.pc = "pr_info", !.user = u, !.code = code,
          !.call = [direct |-> TRUE, code |-> code, before |-> users,
                    prev |-> [user |-> sreq[r].user,
                              code |-> sreq[r].call.code,
                              res |-> sreq[r].res]]]]
  /\ UNCHANGED <<users, clock, tz_offset>>
  /\ UNCHANGED notUserVars

NextReferral ==
  \/ Tick
  \/ \E r \in Req :
       \/ \E u \in Users, c \in Codes : process_referral(r, u, c)
       \/ process_referral_info(r)
       \/ process_referral_referrer(r)
       \/ process_referral_set(r)
       \/ process_referral_credit(r)
       \/ process_referral_notify(r)
       \/ start_request_ends(r)


\* db.py 908 and 709-711: the UPDATE of update_user_balance raised;
\* the function prints and returns False, and process_referral does not look
\* at the result.
process_referral_credit_fails(r) ==
  /\ SStep(r, "pr_credit", [sreq[r] EXCEPT !.pc = "pr_notify"])
  /\ UNCHANGED <<users, clock>>

NextReferralFaults ==
  \/ NextReferral
  \/ \E r \in Req : process_referral_credit_fails(r)

\* ---------------------------------------------------------------------
\* generate_referral_code: the referral link of the "balance" screen
\* ---------------------------------------------------------------------

\* The accounts exist (user_handlers.py 743: get_or_create_user has returned
\* before the code is asked for); the last one may already own the code R1.
InitCodes ==
  /\ tz_offset = 0
  /\ clock = 0
  /\ \E c \in {"R1", NoCode} :
       users = {IF u = NUsers
                  THEN [NewUserRow(u, "n1", TokenOf(u), -10)
                          EXCEPT !.referral_code = c]
                  ELSE NewUserRow(u, "n1", TokenOf(u), -10) : u \in Users}
  /\ sreq = [r \in Req |-> IdleStart]

\* db.py 135: referral_code TEXT UNIQUE (NULLs are not compared).
CodeUpdateOk_NoKey(u, c) == TRUE
CodeUpdateOk(u, c) ==
  \A w \in users : w.user_id # u => w.referral_code # c

\* user_handlers.py 751: generate_referral_code(pool, user_id)
generate_referral_code(r, u) ==
  /\ SStep(r, "idle", [IdleStart EXCEPT !.pc = "grc_select", !.user = u])
  /\ UNCHANGED <<users, clock>>

\* db.py 818-824: SELECT referral_code FROM users WHERE user_id = $1;
\* "if existing_code: return existing_code"
generate_referral_code_select(r) ==
  /\ sreq[r].pc = "grc_select"
  /\ IF \E w \in RowsOf(sreq[r].user) : w.referral_code # NoCode
       THEN \E w \in RowsOf(sreq[r].user) :
              SStep(r, "grc_select",
                    [sreq[r] EXCEPT !.pc = "done", !.res = w.referral_code])
       ELSE SStep(r, "grc_select", [sreq[r] EXCEPT !.pc = "grc_exists"])
  /\ UNCHANGED <<users, clock>>

\* db.py 827-832: a code is drawn and looked up; the loop draws again while
\* the code is taken.
generate_referral_code_exists(r) ==
  /\ sreq[r].pc = "grc_exists"
  /\ \E c \in Codes :
       IF RowsWithCode(c) # {}
         THEN SStep(r, "grc_exists", sreq[r])
         ELSE SStep(r, "grc_exists",
                    [sreq[r] EXCEPT !.pc = "grc_update", !.code = c])
  /\ UNCHANGED <<users, clock>>

\* db.py 833-838: UPDATE users SET referral_code = $1 WHERE user_id = $2;
\* return code.  The statement raises when another row holds the code.
generate_referral_code_update(r) ==
  /\ sreq[r].pc = "grc_update"
  /\ IF CodeUpdateOk(sreq[r].user, sreq[r].code)
       THEN /\ users' = {IF w.user_id = sreq[r].user
                           THEN [w EXCEPT !.referral_code = sreq[r].code]
                           ELSE w : w \in users}
            /\ SStep(r, "grc_update",
                     [sreq[r] EXCEPT !.pc = "done", !.res = sreq[r].code,
                                     !.code = NoCode])
       ELSE /\ UNCHANGED users
            /\ SStep(r, "grc_update",
                     [IdleStart EXCEPT !.pc = "error", !.user = sreq[r].user,
                                       !.res = "users_unique_violation"])
  /\ UNCHANGED clock

NextCodes ==
  \E r \in Req :
    \/ \E u \in Users : generate_referral_code(r, u)
    \/ generate_referral_code_select(r)
    \/ generate_referral_code_exists(r)
    \/ generate_referral_code_update(r)
    \/ start_request_ends(r)


\* =====================================================================
\* Purchases: select_plan, activate_subscription, the debit, the payment
\* =====================================================================

MinutesPerDay == 1440
MaxDays == 40
TickDays == 40

\* The accounts that buy, and the balances they may hold at the start
\* (multiples of the referral bonus).
NBuyers == 1
Buyers == 1..NBuyers
InitBalances == {5000, 15000}

\* db.py 11-16
VALID_PLANS == {"1_month", "3_months", "6_months", "1_year"}

\* db.py 19-24 and get_plan_price (630-632)
PLAN_PRICES(plan) ==
  CASE plan = "1_month" -> 5000
    [] plan = "3_months" -> 12000
    [] plan = "6_months" -> 25000
    [] plan = "1_year" -> 50000
    [] OTHER -> 0

\* db.py 731-740
days_to_add(plan) ==
  CASE plan = "1_month" -> 30
    [] plan = "3_months" -> 90
    [] plan = "6_months" -> 180
    [] plan = "1_year" -> 365

\* timedelta(days=days_to_add)
Days(n) == n * MinutesPerDay

NoRow == 0
NoDate == -1000000
NoTxn == "no_txn"

\* SELECT id, end_date FROM subscriptions WHERE user_id = u AND is_active
\* ORDER BY end_date DESC LIMIT 1: the rows this may return.
ActiveSubs(u) == {x \in subscriptions : x.user_id = u /\ x.is_active}
LatestActiveSubs(u) ==
  {x \in ActiveSubs(u) : \A y \in ActiveSubs(u) : y.end_date <= x.end_date}

\* db.py 759-765: the window an existing row is moved to.
NewEndDate_FromNow(existing_end, current_time, days) == current_time + Days(days)
NewEndDate(existing_end, current_time, days) ==
  IF existing_end > current_time
    THEN existing_end + Days(days)
    ELSE current_time + Days(days)

NewStartDate_KeepsEnd(existing_end, current_time) == existing_end
NewStartDate(existing_end, current_time) ==
  IF existing_end > current_time THEN existing_end ELSE current_time

\* payments.transaction_id is UNIQUE; NULLs do not collide.
PaymentInsertOk_NoKey(txn) == TRUE
PaymentInsertOk(txn) ==
  txn = NoTxn \/ \A x \in payments : x.transaction_id # txn

\* INSERT INTO payments (...) VALUES ($1, $2, $3, 'pending', $4, $5)
NewPaymentRow(id, u, amount, method, txn, merchant_data) ==
  [id |-> id, user_id |-> u, amount |-> amount, method |-> method,
   status |-> "pending", transaction_id |-> txn, merchant_data |-> merchant_data]

\* create_payment (db.py 635-657): what it returns, and the table after it.
\* A refused INSERT has still drawn its id from the sequence.
create_payment_ret(method, txn) ==
  IF method = "balance" /\ PaymentInsertOk(txn) THEN pay_seq ELSE NoRow

create_payment_rows_AnyMethod(u, amount, method, txn, merchant_data) ==
  payments \cup {NewPaymentRow(pay_seq, u, amount, method, txn, merchant_data)}
create_payment_rows(u, amount, method, txn, merchant_data) ==
  IF create_payment_ret(method, txn) # NoRow
    THEN payments \cup
           {NewPaymentRow(pay_seq, u, amount, method, txn, merchant_data)}
    ELSE payments

create_payment_seq(method) ==
  IF method = "balance" THEN pay_seq + 1 ELSE pay_seq

IdleLedger ==
  [pc |-> "idle", user |-> NoUser, amount |-> 0, add_to_total |-> FALSE]

NoPayCall ==
  [n |-> 0, op |-> "none", method |-> "none", txn |-> NoTxn, ret |-> NoRow,
   raised |-> FALSE]

IdlePurchase ==
  [pc |-> "idle", user |-> NoUser, plan |-> "none", price |-> 0, balance |-> 0,
   current_time |-> NoDate, sub_id |-> NoRow, sub_end |-> NoDate,
   subscription_id |-> NoRow, res |-> "none", direct |-> FALSE]

InitPurchases ==
  /\ subscriptions = {}
  /\ sub_seq = 1
  /\ sub_expected = [u \in Users |-> NoDate]
  /\ payments = {}
  /\ pay_seq = 1
  /\ pay_call = NoPayCall
  /\ preq = [r \in Req |-> IdlePurchase]
  /\ lreq = [r \in Req |-> IdleLedger]
  /\ ledger_log = <<>>
  /\ users_at_start = users

\* The buyers hold a balance earned from referrals.
InitBuyers ==
  /\ tz_offset = 0
  /\ clock = 0
  /\ sreq = [r \in Req |-> IdleStart]
  /\ \E b \in [Buyers -> InitBalances] :
       users = {[NewUserRow(u, "n1", TokenOf(u), -10)
                   EXCEPT !.balance = IF u \in Buyers THEN b[u] ELSE 0]
                : u \in Users}

PStep(r, at, new) ==
  /\ UNCHANGED <<chatVars, ledgerVars, tz_offset, sreq, pay_call, callVars>>
  /\ preq[r].pc = at
  /\ preq' = [preq EXCEPT ![r] = new]

\* Days pass.
DaysPass ==
  /\ clock + Days(TickDays) <= Days(MaxDays)
  /\ clock' = clock + Days(TickDays)
  /\ UNCHANGED <<users, tz_offset, sreq, chatVars, subVars, payVars, ledgerVars,
                 callVars>>

\* user_handlers.py 671-683: the callback premium:select:<plan>
select_plan(r, u, plan) ==
  /\ IF plan \in VALID_PLANS
       THEN PStep(r, "idle", [IdlePurchase EXCEPT !.pc = "sp_balance", !.user = u,
                                !.plan = plan, !.price = PLAN_PRICES(plan)])
       ELSE PStep(r, "idle", [IdlePurchase EXCEPT !.pc = "done", !.user = u,
                                !.res = "invalid_plan"])
  /\ UNCHANGED <<users, clock, subscriptions, sub_seq, sub_expected,
                 payments, pay_seq>>

\* user_handlers.py 684-689, 714-730: get_user_balance_info and the check.
select_plan_balance(r) ==
  /\ preq[r].pc = "sp_balance"
  /\ \E w \in RowsOf(preq[r].user) :
       IF w.balance >= preq[r].price
         THEN PStep(r, "sp_balance",
                    [preq[r] EXCEPT !.pc = "as_select", !.balance = w.balance])
         ELSE PStep(r, "sp_balance",
                    [IdlePurchase EXCEPT !.pc = "done", !.user = preq[r].user,
                                         !.res = "insufficient"])
  /\ UNCHANGED <<users, clock, subscriptions, sub_seq, sub_expected,
                 payments, pay_seq>>

\* db.py 726-749: current_time is read, then the latest active row.
activate_subscription_select(r) ==
  /\ preq[r].pc = "as_select"
  /\ IF ActiveSubs(preq[r].user) # {}
       THEN \E x \in LatestActiveSubs(preq[r].user) :
              PStep(r, "as_select",
                    [preq[r] EXCEPT !.pc = "as_write", !.current_time = TashkentNow,
                                    !.sub_id = x.id, !.sub_end = x.end_date])
       ELSE PStep(r, "as_select",
                  [preq[r] EXCEPT !.pc = "as_write", !.current_time = TashkentNow])
  /\ UNCHANGED <<users, clock, subscriptions, sub_seq, sub_expected,
                 payments, pay_seq>>

\* The end date the purchases of account u add up to once this one counts.
ExpectedAfter(u, current_time, days) ==
  IF sub_expected[u] # NoDate /\ sub_expected[u] > current_time
    THEN sub_expected[u] + Days(days)
    ELSE current_time + Days(days)

\* db.py 751-784: the UPDATE of the row read, or the INSERT of a new row.
activate_subscription_write(r) ==
  LET q == preq[r]
      d == days_to_add(q.plan)
  IN
  /\ q.pc = "as_write"
  /\ IF q.sub_id # NoRow
       THEN /\ subscriptions' =
                 {IF x.id = q.sub_id
                    THEN [x EXCEPT !.plan = q.plan,
                                   !.end_date = NewEndDate(q.sub_end, q.current_time, d),
                                   !.start_date = NewStartDate(q.sub_end, q.current_time)]
                    ELSE x : x \in subscriptions}
            /\ UNCHANGED sub_seq
            /\ PStep(r, "as_write",
                     [q EXCEPT !.pc = "as_premium", !.subscription_id = q.sub_id])
       ELSE /\ subscriptions' = subscriptions \cup
                 {[id |-> sub_seq, user_id |-> q.user, plan |-> q.plan,
                   start_date |-> q.current_time,
                   end_date |-> q.current_time + Days(d), is_active |-> TRUE]}
            /\ sub_seq' = sub_seq + 1
            /\ PStep(r, "as_write",
                     [q EXCEPT !.pc = "as_premium", !.subscription_id = sub_seq])
  /\ sub_expected' = [sub_expected EXCEPT
                        ![q.user] = ExpectedAfter(q.user, q.current_time, d)]
  /\ UNCHANGED <<users, clock, payments, pay_seq>>

\* UPDATE users SET is_premium = TRUE WHERE user_id = $1  (db.py 786-790)
SetPremium_Debits(w) == [w EXCEPT !.is_premium = TRUE, !.balance = @ - 1]
SetPremium_Skipped(w) == w
SetPremium(w) == [w EXCEPT !.is_premium = TRUE]

\* db.py 786-793: UPDATE users SET is_premium = TRUE; returns (True, id),
\* to select_plan or to the direct caller.
activate_subscription_premium(r) ==
  /\ PStep(r, "as_premium",
           IF preq[r].direct
             THEN [preq[r] EXCEPT !.pc = "done", !.res = "activated"]
             ELSE [preq[r] EXCEPT !.pc = "sp_debit"])
  /\ users' = {IF w.user_id = preq[r].user THEN SetPremium(w) ELSE w : w \in users}
  /\ UNCHANGED <<clock, subscriptions, sub_seq, sub_expected, payments, pay_seq>>

\* user_handlers.py 693-695: update_user_balance(pool, user_id, -price)
select_plan_debit(r) ==
  /\ PStep(r, "sp_debit", [preq[r] EXCEPT !.pc = "sp_payment"])
  /\ users' = UsersAfterBalanceUpdate(preq[r].user, -preq[r].price, FALSE)
  /\ UNCHANGED <<clock, subscriptions, sub_seq, sub_expected, payments, pay_seq>>

\* user_handlers.py 697-711: create_payment(pool, user_id, price, 'balance',
\* merchant_data="subscription:<id>")
select_plan_payment(r) ==
  /\ PStep(r, "sp_payment", [preq[r] EXCEPT !.pc = "done", !.res = "activated"])
  /\ payments' = create_payment_rows(preq[r].user, preq[r].price, "balance",
                                     NoTxn, preq[r].subscription_id)
  /\ pay_seq' = create_payment_seq("balance")
  /\ UNCHANGED <<users, clock, subscriptions, sub_seq, sub_expected>>

\* The callback has been answered: the task ends.
purchase_request_ends(r) ==
  /\ PStep(r, "done", IdlePurchase)
  /\ UNCHANGED <<users, clock, subscriptions, sub_seq, sub_expected,
                 payments, pay_seq>>

NextPurchase ==
  \/ DaysPass
  \/ \E r \in Req :
       \/ \E u \in Buyers, plan \in VALID_PLANS \cup {"2_weeks"} :
            select_plan(r, u, plan)
       \/ select_plan_balance(r)
       \/ activate_subscription_select(r)
       \/ activate_subscription_write(r)
       \/ activate_subscription_premium(r)
       \/ select_plan_debit(r)
       \/ select_plan_payment(r)
       \/ purchase_request_ends(r)

\* --- the purchase flow when a statement fails in the store

\* A failed debit leaves the balance to buy again: the failures modelled
\* happen while the account's purchases add up to an end date within this
\* many days.
MaxUnpaidDays == 30

\* db.py 709-711: the UPDATE raised (connection lost, timeout);
\* update_user_balance prints and returns False, and select_plan does not
\* look at the result (user_handlers.py 695).
select_plan_debit_fails(r) ==
  /\ PStep(r, "sp_debit", [preq[r] EXCEPT !.pc = "sp_payment"])
  /\ sub_expected[preq[r].user] <= Days(MaxUnpaidDays)
  /\ UNCHANGED <<users, clock, subscriptions, sub_seq, sub_expected,
                 payments, pay_seq>>

\* db.py 655-657: the INSERT raised; create_payment prints and returns None,
\* and select_plan does not look at the result (user_handlers.py 698-701).
select_plan_payment_fails(r) ==
  /\ PStep(r, "sp_payment", [preq[r] EXCEPT !.pc = "done", !.res = "activated"])
  /\ sub_expected[preq[r].user] <= Days(MaxUnpaidDays)
  /\ UNCHANGED <<users, clock, subscriptions, sub_seq, sub_expected,
                 payments, pay_seq>>

NextPurchaseFaults ==
  \/ NextPurchase
  \/ \E r \in Req :
       \/ select_plan_debit_fails(r)
       \/ select_plan_payment_fails(r)

\* =====================================================================
\* The ledger: update_user_balance called directly, by concurrent tasks
\* =====================================================================

MaxLedgerCalls == 3
Amounts == {100, -30, 10}

LStep(r, at, new) ==
  /\ UNCHANGED <<chatVars, clock, tz_offset, sreq, subVars, payVars, users_at_start,
                 callVars>>
  /\ lreq[r].pc = at
  /\ lreq' = [lreq EXCEPT ![r] = new]

\* db.py 688-694: the call is made and waits for a connection.
update_user_balance(r, u, amount, add_to_total) ==
  /\ Len(ledger_log) + Cardinality({q \in Req : lreq[q].pc = "uub_update"})
       < MaxLedgerCalls
  /\ LStep(r, "idle", [pc |-> "uub_update", user |-> u, amount |-> amount,
                       add_to_total |-> add_to_total])
  /\ UNCHANGED <<users, ledger_log>>

\* db.py 696-708: the one UPDATE statement; returns True.
update_user_balance_update(r) ==
  /\ LStep(r, "uub_update", [lreq[r] EXCEPT !.pc = "done"])
  /\ users' = UsersAfterBalanceUpdate(lreq[r].user, lreq[r].amount,
                                      lreq[r].add_to_total)
  /\ ledger_log' = Append(ledger_log,
                          [user |-> lreq[r].user, amount |-> lreq[r].amount,
                           add_to_total |-> lreq[r].add_to_total])

\* The caller has its answer: the task ends.
update_user_balance_returns(r) ==
  /\ LStep(r, "done", IdleLedger)
  /\ UNCHANGED <<users, ledger_log>>

NextLedger ==
  \E r \in Req :
    \/ \E u \in Buyers, amount \in Amounts, add_to_total \in BOOLEAN :
         update_user_balance(r, u, amount, add_to_total)
    \/ update_user_balance_update(r)
    \/ update_user_balance_returns(r)

\* =====================================================================
\* The payments table: create_payment and update_payment_status called
\* directly. Each is one SQL statement, so the calls of concurrent tasks
\* take effect in some order.
\* =====================================================================

MaxPayCalls == 4
EmptyTxn == ""
TxnIds == {NoTxn, EmptyTxn, "x1", "x2"}

\* db.py 67-71: the payment_status enum.
PaymentStatuses ==
  {"pending", "processing", "completed", "failed", "cancelled", "refunded",
   "expired", "on_hold"}

\* `if transaction_id:` (db.py 674): None and '' are both false.
Truthy(txn) == txn # NoTxn /\ txn # EmptyTxn

\* The UNIQUE constraint as the UPDATE of row id meets it.
PaymentUpdateOk(id, txn) ==
  \A x \in payments : x.id # id => x.transaction_id # txn

PayStep(call) ==
  /\ pay_call.n < MaxPayCalls
  /\ pay_call' = [call EXCEPT !.n = pay_call.n + 1]
  /\ UNCHANGED <<chatVars, userVars, subVars, ledgerVars, callVars>>

\* db.py 635-657
create_payment(u, amount, method, txn, merchant_data) ==
  /\ PayStep([NoPayCall EXCEPT !.op = "create_payment", !.method = method,
                !.txn = txn, !.ret = create_payment_ret(method, txn)])
  /\ payments' = create_payment_rows(u, amount, method, txn, merchant_data)
  /\ pay_seq' = create_payment_seq(method)

\* db.py 671-685: a status outside the enum, or a transaction_id another row
\* holds, makes the UPDATE raise; the exception is not caught.
update_payment_status(payment_id, status, txn) ==
  LET ok == /\ status \in PaymentStatuses
            /\ Truthy(txn) => PaymentUpdateOk(payment_id, txn)
  IN
  /\ PayStep([NoPayCall EXCEPT !.op = "update_payment_status", !.txn = txn,
                !.raised = ~ok])
  /\ payments' =
       IF ok
         THEN {IF x.id = payment_id
                 THEN [x EXCEPT !.status = status,
                                !.transaction_id = IF Truthy(txn) THEN txn ELSE @]
                 ELSE x : x \in payments}
         ELSE payments
  /\ UNCHANGED pay_seq

NextPayments ==
  \/ \E u \in Buyers, method \in {"balance", "click"}, txn \in TxnIds :
       create_payment(u, PLAN_PRICES("1_month"), method, txn, NoRow)
  \/ \E payment_id \in 1..MaxPayCalls, status \in {"completed", "failed", "paid"},
        txn \in TxnIds :
       update_payment_status(payment_id, status, txn)

\* =====================================================================
\* Calls made directly: their records when no call has been made
\* =====================================================================

IdleBan ==
  [pc |-> "idle", user |-> NoUser, banned_until |-> NoDate,
   is_banned |-> FALSE, until |-> NoDate, listed |-> {}, count |-> 0]

NoChatCall ==
  [op |-> "none", user |-> NoUser, ok |-> FALSE, msg |-> "none",
   partner |-> NoUser, was_queued |-> FALSE,
   prev |-> [op |-> "none", user |-> NoUser, ok |-> FALSE]]

InitCalls ==
  /\ muted_users = {}
  /\ breq = [r \in Req |-> IdleBan]
  /\ chat_call = NoChatCall
  /\ sub_calls = 0

\* =====================================================================
\* The pairing functions of db.py called directly, one call at a time
\* =====================================================================

\* The call made and what it returned; the tables of the requests stay put.
ChatCalled(op, u, ok, msg, partner) ==
  /\ chat_call' = [op |-> op, user |-> u, ok |-> ok, msg |-> msg,
                   partner |-> partner, was_queued |-> InQueue(u),
                   prev |-> [op |-> chat_call.op, user |-> chat_call.user,
                             ok |-> chat_call.ok]]
  /\ UNCHANGED <<hpc, huser, hpartner, hres, muted_users, breq, sub_calls>>
  /\ UNCHANGED <<userVars, subVars, payVars, ledgerVars>>

\* db.py 1068-1087
add_to_chat_queue(u) ==
  IF ConnRowsOf(u) # {}
    THEN /\ ChatCalled("add_to_chat_queue", u, FALSE, "already_in_chat", NoUser)
         /\ UNCHANGED <<chat_queue, chat_connections>>
    ELSE IF InQueue(u)
      THEN /\ ChatCalled("add_to_chat_queue", u, FALSE, "already_in_queue", NoUser)
           /\ UNCHANGED <<chat_queue, chat_connections>>
      ELSE /\ ChatCalled("add_to_chat_queue", u, TRUE, "added", NoUser)
           /\ chat_queue' = [chat_queue EXCEPT ![u] = @ + 1]
           /\ UNCHANGED chat_connections

\* db.py 1090-1115; when the INSERT raises, the DELETE before it has run.
find_chat_partner(u) ==
  IF \E p \in Users : p # u /\ InQueue(p)
    THEN \E p \in Users :
           /\ p # u
           /\ InQueue(p)
           /\ chat_queue' = QueueAfterMatch(u, p)
           /\ IF ConnInsertOk(u, p)
                THEN /\ chat_connections' = chat_connections \cup {<<u, p>>}
                     /\ ChatCalled("find_chat_partner", u, TRUE, "found", p)
                ELSE /\ UNCHANGED chat_connections
                     /\ ChatCalled("find_chat_partner", u, FALSE,
                                   "conn_unique_violation", NoUser)
    ELSE /\ ChatCalled("find_chat_partner", u, FALSE, "not_found", NoUser)
         /\ UNCHANGED <<chat_queue, chat_connections>>

\* db.py 1118-1130: fetchrow returns one of the rows of u, or None; the
\* values the call may return.
get_chat_partner_rets(u) ==
  IF ConnRowsOf(u) # {}
    THEN {PartnerIn(c, u) : c \in ConnRowsOf(u)}
    ELSE {NoUser}

get_chat_partner(u) ==
  /\ \E p \in get_chat_partner_rets(u) :
       ChatCalled("get_chat_partner", u, p # NoUser,
                  IF p # NoUser THEN "partner" ELSE "none", p)
  /\ UNCHANGED <<chat_queue, chat_connections>>

\* db.py 1133-1159
end_chat(u) ==
  /\ IF ConnRowsOf(u) # {}
       THEN \E c \in ConnRowsOf(u) :
              /\ chat_connections' = ConnsAfterEnd(u, PartnerIn(c, u))
              /\ ChatCalled("end_chat", u, TRUE, "ended", PartnerIn(c, u))
       ELSE /\ UNCHANGED chat_connections
            /\ ChatCalled("end_chat", u, FALSE, "not_ended", NoUser)
  /\ UNCHANGED chat_queue

NextChatApi ==
  \E u \in Users :
    \/ add_to_chat_queue(u)
    \/ find_chat_partner(u)
    \/ get_chat_partner(u)
    \/ end_chat(u)

\* =====================================================================
\* activate_subscription called directly (the subscription engine by
\* itself), one call per account at a time
\* =====================================================================

MaxSubCalls == 3

\* The accounts it is called for: a buyer, and an account with balance 0.
DirectUsers == {1, NUsers}

\* db.py 714-724: the call; a plan outside VALID_PLANS returns (False, None).
activate_subscription(r, u, plan) ==
  /\ preq[r].pc = "idle"
  /\ sub_calls < MaxSubCalls
  /\ \A q \in Req : preq[q].user = u => preq[q].pc = "done"
  /\ sub_calls' = sub_calls + 1
  /\ preq' = [preq EXCEPT ![r] =
                IF plan \in VALID_PLANS
                  THEN [IdlePurchase EXCEPT !.pc = "as_select", !.user = u,
                                            !.plan = plan, !.direct = TRUE]
                  ELSE [IdlePurchase EXCEPT !.pc = "done", !.user = u,
                                            !.plan = plan, !.direct = TRUE,
                                            !.res = "failed"]]
  /\ UNCHANGED <<users, clock, tz_offset, sreq, subscriptions, sub_seq,
                 sub_expected, payVars, ledgerVars, chatVars,
                 muted_users, breq, chat_call>>

NextSubscription ==
  \/ DaysPass
  \/ \E r \in Req :
       \/ \E u \in DirectUsers, plan \in VALID_PLANS \cup {"2_weeks"} :
            activate_subscription(r, u, plan)
       \/ activate_subscription_select(r)
       \/ activate_subscription_write(r)
       \/ activate_subscription_premium(r)
       \/ purchase_request_ends(r)

\* ---------------------------------------------------------------------
\* Inputs outside the accepted values: activate_subscription and
\* create_payment called directly with any plan and any method
\* ---------------------------------------------------------------------

NextInputs ==
  \/ \E u \in DirectUsers, method \in {"balance", "click", "payme"} :
       create_payment(u, PLAN_PRICES("1_month"), method, NoTxn, NoRow)
  \/ \E r \in Req :
       \/ \E plan \in {"1_month", "2_weeks", "none"} : activate_subscription(r, 1, plan)
       \/ activate_subscription_select(r)
       \/ activate_subscription_write(r)
       \/ activate_subscription_premium(r)
       \/ purchase_request_ends(r)


\* ---------------------------------------------------------------------
\* The profile: make_profile_anonymous and set_user_hidden, while
\* subscriptions are being activated
\* ---------------------------------------------------------------------

\* db.py 479: `if not is_premium: return False`
HiddenAllowed_Always(is_premium) == TRUE
HiddenAllowed(is_premium) == is_premium

\* user_handlers.py 540-544: the callback profile:make_anonymous
make_profile_anonymous(r, u) ==
  /\ SStep(r, "idle", [IdleStart EXCEPT !.pc = "mpa_premium", !.user = u])
  /\ UNCHANGED <<users, clock>>

\* user_handlers.py 546-549 and db.py 427-434: is_user_premium
mpa_is_user_premium(r) ==
  /\ sreq[r].pc = "mpa_premium"
  /\ IF \E w \in RowsOf(sreq[r].user) : w.is_premium
       THEN SStep(r, "mpa_premium", [sreq[r] EXCEPT !.pc = "suh_select"])
       ELSE SStep(r, "mpa_premium",
                  [sreq[r] EXCEPT !.pc = "done", !.res = "not_premium"])
  /\ UNCHANGED <<users, clock>>

\* db.py 468-473: set_user_hidden called directly
set_user_hidden(r, u) ==
  /\ SStep(r, "idle", [IdleStart EXCEPT !.pc = "suh_select", !.user = u])
  /\ UNCHANGED <<users, clock>>

\* db.py 474-480: SELECT is_premium FROM users WHERE user_id = $1
set_user_hidden_select(r) ==
  /\ sreq[r].pc = "suh_select"
  /\ IF \E w \in RowsOf(sreq[r].user) : HiddenAllowed(w.is_premium)
       THEN SStep(r, "suh_select", [sreq[r] EXCEPT !.pc = "suh_update"])
       ELSE SStep(r, "suh_select", [sreq[r] EXCEPT !.pc = "done", !.res = "False"])
  /\ UNCHANGED <<users, clock>>

\* db.py 482-489: UPDATE users SET is_hidden = TRUE WHERE user_id = $1
set_user_hidden_update(r) ==
  /\ SStep(r, "suh_update", [sreq[r] EXCEPT !.pc = "done", !.res = "True"])
  /\ users' = {IF w.user_id = sreq[r].user THEN [w EXCEPT !.is_hidden = TRUE]
               ELSE w : w \in users}
  /\ UNCHANGED clock

NextProfile ==
  \/ \E r \in Req :
       \/ activate_subscription(r, 1, "1_month")
       \/ activate_subscription_select(r)
       \/ activate_subscription_write(r)
       \/ activate_subscription_premium(r)
       \/ purchase_request_ends(r)
       \/ \E u \in DirectUsers : make_profile_anonymous(r, u)
       \/ mpa_is_user_premium(r)
       \/ \E u \in DirectUsers : set_user_hidden(r, u)
       \/ set_user_hidden_select(r)
       \/ set_user_hidden_update(r)
       \/ start_request_ends(r)


\* =====================================================================
\* Bans: the muted_users table, is_user_banned, the admin's ban and unban
\* =====================================================================

\* admin_handlers.py 405-406: "a far future date (e.g., 100 years from now)"
BanDays == 36500
MaxBanTicks == 2
NoReason == "NULL"

\* SELECT ... FROM muted_users WHERE user_id = u
BanRowsOf(u) == {x \in muted_users : x.user_id = u}

\* db.py 413: `if banned_until > current_time`
BanActive_AtBoundary(banned_until, current_time) == banned_until >= current_time
BanActive(banned_until, current_time) == banned_until > current_time

\* DELETE FROM muted_users WHERE user_id = u
BansWithout(u) == {x \in muted_users : x.user_id # u}

BStep(r, at, new) ==
  /\ breq[r].pc = at
  /\ breq' = [breq EXCEPT ![r] = new]
  /\ UNCHANGED <<chatVars, users, tz_offset, sreq, subVars, payVars, ledgerVars,
                 chat_call, sub_calls>>

\* A hundred years pass.
BanTimePasses ==
  /\ clock < MaxBanTicks * Days(BanDays)
  /\ clock' = clock + Days(BanDays)
  /\ UNCHANGED <<muted_users, breq>>
  /\ UNCHANGED <<chatVars, users, tz_offset, sreq, subVars, payVars, ledgerVars,
                 chat_call, sub_calls>>

\* admin_handlers.py 406 and 862: datetime.now(ZoneInfo(TIMEZONE)) +
\* timedelta(days=36500), whatever record the account has.
BanUntil_Stacked(u, now) ==
  IF BanRowsOf(u) = {}
    THEN now + Days(BanDays)
    ELSE (CHOOSE x \in BanRowsOf(u) : TRUE).muted_until + Days(BanDays)
BanUntil(u, now) == now + Days(BanDays)

\* admin_handlers.py 400-415 and 864-870: INSERT ... ON CONFLICT (user_id)
\* DO UPDATE SET muted_until = $2, reason = NULL, created_at = CURRENT_TIMESTAMP
ban_user(u) ==
  /\ muted_users' = BansWithout(u) \cup
       {[user_id |-> u, muted_until |-> BanUntil(u, TashkentNow),
         reason |-> NoReason, created_at |-> clock]}
  /\ UNCHANGED <<breq, clock>>
  /\ UNCHANGED <<chatVars, users, tz_offset, sreq, subVars, payVars, ledgerVars,
                 chat_call, sub_calls>>

\* admin_handlers.py 226-227 and 915: DELETE FROM muted_users WHERE user_id = $1
unban_user(u) ==
  /\ BanRowsOf(u) # {}
  /\ muted_users' = BansWithout(u)
  /\ UNCHANGED <<breq, clock>>
  /\ UNCHANGED <<chatVars, users, tz_offset, sreq, subVars, payVars, ledgerVars,
                 chat_call, sub_calls>>

\* db.py 402-408
is_user_banned(r, u) ==
  /\ BStep(r, "idle", [IdleBan EXCEPT !.pc = "iub_select", !.user = u])
  /\ UNCHANGED <<muted_users, clock>>

\* db.py 409-415 and 417: the row is read and compared with the time in
\* Asia/Tashkent.
is_user_banned_select(r) ==
  /\ breq[r].pc = "iub_select"
  /\ IF BanRowsOf(breq[r].user) = {}
       THEN BStep(r, "iub_select", [breq[r] EXCEPT !.pc = "done"])
       ELSE \E row \in BanRowsOf(breq[r].user) :
              IF BanActive(row.muted_until, TashkentNow)
                THEN BStep(r, "iub_select",
                           [breq[r] EXCEPT !.pc = "done",
                                           !.banned_until = row.muted_until,
                                           !.is_banned = TRUE,
                                           !.until = row.muted_until])
                ELSE BStep(r, "iub_select",
                           [breq[r] EXCEPT !.pc = "iub_delete",
                                           !.banned_until = row.muted_until])
  /\ UNCHANGED <<muted_users, clock>>

\* db.py 416-417
is_user_banned_delete(r) ==
  /\ BStep(r, "iub_delete", [breq[r] EXCEPT !.pc = "done"])
  /\ muted_users' = BansWithout(breq[r].user)
  /\ UNCHANGED clock

\* The caller has its answer.
ban_check_ends(r) ==
  /\ BStep(r, "done", IdleBan)
  /\ UNCHANGED <<muted_users, clock>>

\* The admin's views ------------------------------------------------------

\* CURRENT_TIMESTAMP, as the database compares it with a TIMESTAMP column
DbNow == clock

\* admin_handlers.py 279-287 (show_user_info) and 505-512 (the same view after
\* a button): SELECT user_id FROM muted_users WHERE user_id = $1;
\* is_banned = bool(banned_row)
show_user_info(r, u) ==
  /\ BStep(r, "idle", [IdleBan EXCEPT !.pc = "shown", !.user = u,
                                      !.is_banned = (BanRowsOf(u) # {})])
  /\ UNCHANGED <<muted_users, clock>>

\* db.py 1200-1216: ... WHERE mu.muted_until > CURRENT_TIMESTAMP
get_all_banned_users(r) ==
  /\ BStep(r, "idle",
           [IdleBan EXCEPT !.pc = "shown",
              !.listed = {x.user_id : x \in {y \in muted_users :
                                               y.muted_until > DbNow}}])
  /\ UNCHANGED <<muted_users, clock>>

\* db.py 1219-1226: SELECT COUNT(*) ... WHERE muted_until > CURRENT_TIMESTAMP
get_banned_users_count(r) ==
  /\ BStep(r, "idle",
           [IdleBan EXCEPT !.pc = "shown",
              !.count = Cardinality({y \in muted_users : y.muted_until > DbNow})])
  /\ UNCHANGED <<muted_users, clock>>

\* The admin has been answered.
admin_view_ends(r) ==
  /\ BStep(r, "shown", IdleBan)
  /\ UNCHANGED <<muted_users, clock>>

NextBans ==
  \/ BanTimePasses
  \/ \E u \in Users : ban_user(u)
  \/ \E u \in Users : unban_user(u)
  \/ \E r \in Req :
       \/ \E u \in Users : is_user_banned(r, u)
       \/ is_user_banned_select(r)
       \/ is_user_banned_delete(r)
       \/ ban_check_ends(r)
       \/ \E u \in Users : show_user_info(r, u)
       \/ get_all_banned_users(r)
       \/ get_banned_users_count(r)
       \/ admin_view_ends(r)


\* =====================================================================
\* Specifications
\* =====================================================================

\* Pairing: the accounts exist, no /start request runs.
InitSpecChat == InitChat /\ InitAccounts /\ InitPurchases /\ InitCalls
SpecChat == InitSpecChat /\ [][NextChat]_vars

\* The pairing functions, called directly by one caller at a time.
SpecChatApi == InitSpecChat /\ [][NextChatApi]_vars

\* Accounts and referral: no chat request runs.
InitSpecStart == InitChat /\ InitUsers /\ InitPurchases /\ InitCalls
SpecStart == InitSpecStart /\ [][NextStart]_vars

\* /start with the links of two referrers
InitSpecReferrers == InitChat /\ InitReferrers /\ InitPurchases /\ InitCalls
SpecReferrers == InitSpecReferrers /\ [][NextStart]_vars

\* Bans
SpecBans == InitSpecChat /\ [][NextBans]_vars

\* process_referral called directly
InitSpecReferral == InitChat /\ InitReferral /\ InitPurchases /\ InitCalls
SpecReferral == InitSpecReferral /\ [][NextReferral]_vars

\* process_referral called directly; the credit may fail in the store.
SpecReferralFaults == InitSpecReferral /\ [][NextReferralFaults]_vars

\* Purchases: the accounts exist, the buyers hold a balance.
InitSpecPurchase == InitChat /\ InitBuyers /\ InitPurchases /\ InitCalls
SpecPurchase == InitSpecPurchase /\ [][NextPurchase]_vars

\* Purchases in which the debit or the payment INSERT may fail.
SpecPurchaseFaults == InitSpecPurchase /\ [][NextPurchaseFaults]_vars

\* The subscription engine called directly.
SpecSubscription == InitSpecPurchase /\ [][NextSubscription]_vars

\* The ledger: concurrent update_user_balance calls on the buyers' accounts.
SpecLedger == InitSpecPurchase /\ [][NextLedger]_vars

\* The payments table: any order of create_payment and update_payment_status.
SpecPayments == InitSpecPurchase /\ [][NextPayments]_vars

\* The profile
SpecProfile == InitSpecPurchase /\ [][NextProfile]_vars

\* Inputs outside the accepted values
SpecInputs == InitSpecPurchase /\ [][NextInputs]_vars

\* The referral codes: concurrent generate_referral_code calls.
InitSpecCodes == InitChat /\ InitCodes /\ InitPurchases /\ InitCalls
SpecCodes == InitSpecCodes /\ [][NextCodes]_vars

\* --- claims about pairing

\* C1: in every reachable state each account id appears in at most one
\* chat_connections row, whatever the interleaving of find_chat and end_chat
\* requests of different accounts.
C1_AtMostOneSessionPerAccount ==
  \A u \in Users : Cardinality(ConnRowsOf(u)) <= 1

\* C2: in every reachable state no account has both a chat_queue entry and a
\* chat_connections row.
C2_NeverQueuedAndPaired ==
  \A u \in Users : ~(InQueue(u) /\ ConnRowsOf(u) # {})

\* C6: chat_queue holds at most one entry per account in every reachable
\* state, also when two add_to_chat_queue calls for the same account race
\* through the check-then-insert.
C6_OneQueueEntryPerAccount ==
  \A u \in Users : chat_queue[u] <= 1

\* Two add_to_chat_queue calls of one account both passed the check at 1081
\* and the second INSERT was refused by the primary key.
C6_Witness ==
  \E r \in Req :
    /\ hpc[r] = "error"
    /\ hres[r] = "queue_pkey_violation"
    /\ chat_queue[huser[r]] = 1

C35_AtMostOneWaiting ==
  (\A r \in Req :
     hpc[r] \notin {"fch_get_partner", "atq_chat", "atq_queue", "atq_insert",
                    "fcp_select", "fcp_delete", "fcp_insert"})
    => Cardinality({u \in Users : chat_queue[u] > 0}) <= 1

\* Two find_chat requests ran concurrently and both have returned: one was
\* paired with an earlier waiter, the other found nobody and is the one
\* account left waiting.
C35_Witness ==
  \E r \in Req, q \in Req :
    /\ hpc[r] = "done" /\ hres[r] = "not_found"
    /\ hpc[q] = "done" /\ hres[q] = "found"
    /\ {u \in Users : chat_queue[u] > 0} = {huser[r]}
    /\ ConnRowsOf(huser[q]) # {}

\* C40: when end_chat_handler completes for an account and no other request
\* of that account is in flight, the account has no queue entry and no
\* session, whether it was waiting or paired, and the partner whose session
\* was ended has no session either.
C40_EndChatLeavesIdle ==
  [][\A r \in Req :
       (/\ hpc[r] \in {"ech_in_queue", "ech_remove", "ec_select", "ec_delete"}
        /\ hres[r] # "notify_failed"
        /\ hpc'[r] = "done"
        /\ \A q \in Req \ {r} : huser[q] # huser[r])
         => /\ chat_queue'[huser[r]] = 0
            /\ \A c \in chat_connections' :
                 c[1] # huser[r] /\ c[2] # huser[r]
            /\ hpc[r] = "ec_delete"
                 => \A c \in chat_connections' :
                      c[1] # hpartner[r] /\ c[2] # hpartner[r]]_vars

\* --- claims about the pairing functions called directly

\* The session rows that join account u to somebody.
RowsJoining(u) == {c \in chat_connections : c[1] = u \/ c[2] = u}

\* The accounts that appear in a session row after the step.
PairedAfter == {c[1] : c \in chat_connections'} \cup {c[2] : c \in chat_connections'}

C18_JoinQueueOutcomes ==
  [][chat_call'.op = "add_to_chat_queue" =>
       LET u == chat_call'.user IN
       /\ chat_connections' = chat_connections
       /\ IF RowsJoining(u) # {}
            THEN /\ ~chat_call'.ok /\ chat_call'.msg = "already_in_chat"
                 /\ chat_queue' = chat_queue
            ELSE IF chat_queue[u] > 0
              THEN /\ ~chat_call'.ok /\ chat_call'.msg = "already_in_queue"
                   /\ chat_queue' = chat_queue
              ELSE /\ chat_call'.ok /\ chat_call'.msg = "added"
                   /\ chat_queue' = [chat_queue EXCEPT ![u] = 1]]_vars

\* add_to_chat_queue has just refused an account stored in the second column
\* of its session row.
C18_Witness ==
  /\ chat_call.op = "add_to_chat_queue" /\ chat_call.msg = "already_in_chat"
  /\ \E c \in chat_connections : c[2] = chat_call.user /\ c[1] # chat_call.user
  /\ \E u \in Users : chat_queue[u] = 1

\* C19: find_chat_partner(id): if an account other than id has a queue entry
\* it returns (True, p) with p queued and different from id, afterwards
\* neither id nor p has a queue entry and exactly one new session row joins
\* id and p, also when id itself had no queue entry; if no other account is
\* queued it returns (False, None) and leaves queue and sessions unchanged.
C19_MatchOutcomes ==
  [][chat_call'.op = "find_chat_partner" =>
       LET u == chat_call'.user
           p == chat_call'.partner
       IN
       IF \E x \in Users : x # u /\ chat_queue[x] > 0
         THEN /\ chat_call'.ok
              /\ p \in Users /\ p # u /\ chat_queue[p] > 0
              /\ chat_queue' = [x \in Users |->
                                  IF x = u \/ x = p THEN 0 ELSE chat_queue[x]]
              /\ chat_connections \subseteq chat_connections'
              /\ Cardinality(chat_connections' \ chat_connections) = 1
              /\ chat_connections' \ chat_connections \subseteq {<<u, p>>, <<p, u>>}
         ELSE /\ ~chat_call'.ok /\ p = NoUser
              /\ chat_queue' = chat_queue
              /\ chat_connections' = chat_connections]_vars

\* Account 42 joined the queue, then account 99, which had no queue entry,
\* called find_chat_partner and was paired with it.
C19_Witness ==
  /\ chat_call.op = "find_chat_partner" /\ chat_call.ok /\ ~chat_call.was_queued
  /\ chat_call.prev = [op |-> "add_to_chat_queue", user |-> chat_call.partner,
                       ok |-> TRUE]
  /\ <<chat_call.user, chat_call.partner>> \in chat_connections
  /\ chat_queue[chat_call.user] = 0 /\ chat_queue[chat_call.partner] = 0

RECURSIVE SumOfBalances(_)
SumOfBalances(rows) ==
  IF rows = {} THEN 0
  ELSE LET w == CHOOSE x \in rows : TRUE
       IN w.balance + SumOfBalances(rows \ {w})

\* C4: whatever the interleaving of the process_referral calls made for one
\* new account, the referrers are credited the 10-unit bonus at most once for
\* that account: the balances, which start at 0 and change by referral
\* credits only here, sum to at most 10 for each account that has a referrer.
C4_BonusPaidAtMostOnce ==
  SumOfBalances(users) <=
    ReferralBonus * Cardinality({w \in users : w.referral_by # NoUser})

\* C7: concurrent get_or_create_user calls with one external id produce one
\* account row, and every call that has returned a token returned the token
\* stored in that row.
C7_OneRowAndItsToken ==
  /\ \A u \in Users : Cardinality(RowsOf(u)) <= 1
  /\ \A r \in Req :
       sreq[r].token # NoToken =>
         /\ Cardinality(RowsOf(sreq[r].user)) = 1
         /\ \A w \in RowsOf(sreq[r].user) : w.token = sreq[r].token

\* Two calls for one new id raced: one inserted the row and returned its
\* token, the other's INSERT was refused.
C7_Witness ==
  \E r1, r2 \in Req :
    /\ r1 # r2
    /\ sreq[r1].user = sreq[r2].user
    /\ sreq[r1].token # NoToken
    /\ sreq[r1].is_new
    /\ sreq[r2].pc = "error"
    /\ sreq[r2].res = "users_unique_violation"

\* C13: get_or_create_user called for an external id that already exists
\* returns the token stored at creation with is_new = false, and changes no
\* field of the account other than the display name: token, balance, flags
\* and referral_by are unchanged whatever referral code was passed.  As a
\* property of every step: no step changes the token of a row; a step of
\* get_or_create_user that finds the row changes at most the name of that
\* row, and when it returns, returns the row's token and is_new = false.
C13_ExistingAccountKept ==
  [][/\ \A w \in users : \E w2 \in users' :
          w2.user_id = w.user_id /\ w2.token = w.token
     /\ \A r \in Req : \A w \in users :
          (/\ sreq[r].pc \in {"goc_select", "goc_update"}
           /\ sreq'[r] # sreq[r]
           /\ w.user_id = sreq[r].user)
            => /\ users' = (users \ {w}) \cup {[w EXCEPT !.name = sreq[r].name]}
                    \/ users' = users
               /\ sreq'[r].pc \notin {"goc_select", "goc_update"}
                    => /\ sreq'[r].token = w.token
                       /\ ~sreq'[r].is_new
                       /\ \E w2 \in users' :
                            w2 = [w EXCEPT !.name = sreq[r].name]]_vars

\* get_or_create_user was called with a referral code for an id that had no
\* row when start_handler looked, found the row a concurrent request had
\* inserted, and returned its token with is_new = false.
C13_Witness ==
  \E r \in Req : \E w \in users :
    /\ sreq[r].pc = "pr_info" /\ sreq[r].code # NoCode
    /\ ~sreq[r].is_new /\ sreq[r].token = w.token
    /\ w.user_id = sreq[r].user

\* --- claims about purchases

\* C21: no two accounts ever have the same token, and the token of an account
\* never changes once the account exists.
C21_TokensUniqueAndFixed ==
  /\ [](\A w1 \in users, w2 \in users :
          w1.token = w2.token => w1.user_id = w2.user_id)
  /\ [][\A w \in users :
          \E x \in users' : x.user_id = w.user_id /\ x.token = w.token]_vars

\* generate_token drew a token that is taken: the INSERT of a newcomer was
\* refused, while another account has returned and got its stored token back.
C21_Witness ==
  /\ \E r \in Req :
       /\ sreq[r].pc = "error"
       /\ \A w \in users : w.user_id # sreq[r].user
  /\ \E r \in Req, w \in users :
       /\ sreq[r].pc = "done" /\ sreq[r].user = w.user_id
       /\ sreq[r].token = w.token /\ ~sreq[r].is_new

\* C22: set_user_hidden sets is_hidden and returns True only for an account whose
\* is_premium flag is true; otherwise it returns False and leaves is_hidden as it
\* was; so in every reachable state is_hidden implies is_premium.
C22_HiddenOnlyIfPremium ==
  /\ [](\A w \in users : w.is_hidden => w.is_premium)
  /\ [][\A r \in Req :
          LET u == sreq[r].user
              premium == \E w \in users : w.user_id = u /\ w.is_premium
          IN  /\ (sreq[r].pc = "suh_select" /\ sreq'[r].pc # "suh_select")
                   => IF premium
                        THEN sreq'[r].pc = "suh_update" /\ users' = users
                        ELSE /\ sreq'[r].pc = "done" /\ sreq'[r].res = "False"
                             /\ users' = users
              /\ (sreq[r].pc = "suh_update" /\ sreq'[r].pc # "suh_update")
                   => /\ sreq'[r].pc = "done" /\ sreq'[r].res = "True"
                      /\ \E w \in users' :
                           w.user_id = u /\ w.is_hidden /\ w.is_premium]_vars

\* One account has hidden its profile after its subscription was activated;
\* another, not premium, was answered False and is not hidden.
C22_Witness ==
  /\ \E r \in Req, w \in users :
       /\ sreq[r].pc = "done" /\ sreq[r].res = "True"
       /\ w.user_id = sreq[r].user /\ w.is_hidden /\ w.is_premium
  /\ \E r \in Req, w \in users :
       /\ sreq[r].pc = "done" /\ sreq[r].res = "False"
       /\ w.user_id = sreq[r].user /\ ~w.is_hidden /\ ~w.is_premium

\* The rows a call of process_referral is about: the account's row without a
\* referrer, and the rows of other accounts that own the code.
NewRowsIn(b, u) == {w \in b : w.user_id = u /\ w.referral_by = NoUser}
ReferrersIn(b, u, c) == {w \in b : w.referral_code = c /\ w.user_id # u}

\* C15: process_referral called twice in succession with the same new account
\* and a valid code: the first call returns True, sets the account's referral_by
\* to the referrer and adds exactly 10 to the referrer's balance, leaving
\* total_deposited alone; the second call returns False and changes nothing.
C15_ReferralCreditedOnce ==
  [][\A r \in Req :
       (/\ sreq[r].call.direct
        /\ sreq[r].pc \notin {"idle", "done"}
        /\ sreq'[r].pc = "done")
         => LET u == sreq[r].user
                c == sreq[r].call.code
                b == sreq[r].call.before
                prev == sreq[r].call.prev
            IN  /\ sreq'[r].res \in {"True", "False"}
                /\ (/\ NewRowsIn(b, u) # {}
                    /\ ReferrersIn(b, u, c) # {}
                    /\ \A w \in NewRowsIn(b, u) : clock' - w.created_at <= 1)
                     => sreq'[r].res = "True"
                /\ sreq'[r].res = "True"
                     => /\ NewRowsIn(b, u) # {}
                        /\ \E f \in ReferrersIn(b, u, c) :
                             users' =
                               {IF w.user_id = u
                                  THEN [w EXCEPT !.referral_by = f.user_id]
                                  ELSE IF w.user_id = f.user_id
                                         THEN [w EXCEPT !.balance = @ + 10]
                                         ELSE w : w \in b}
                /\ (prev.res = "True" /\ prev.user = u /\ prev.code = c)
                     => sreq'[r].res = "False" /\ users' = b]_vars

\* A second call for a newcomer still inside the minute of grace has returned
\* False, right after the first returned True and credited the referrer once.
C15_Witness ==
  \E r \in Req :
    /\ sreq[r].pc = "done" /\ sreq[r].call.direct /\ sreq[r].res = "False"
    /\ sreq[r].call.prev = [user |-> sreq[r].user, code |-> sreq[r].call.code,
                            res |-> "True"]
    /\ \E w \in users : /\ w.user_id = sreq[r].user
                        /\ w.referral_by # NoUser
                        /\ clock - w.created_at <= 1
                        /\ \E f \in users : /\ f.user_id = w.referral_by
                                            /\ f.balance = 10
                                            /\ f.total_deposited = 0

\* activate_subscription has written for request record q.
Activated(q) ==
  \/ q.pc \in {"as_premium", "sp_debit", "sp_payment"}
  \/ q.pc = "done" /\ q.res = "activated"

\* C3: two concurrent activate_subscription calls for one account that both
\* succeed leave an end_date that reflects both purchases (the end_date stored
\* before, or now, plus both plans' days), and the two calls never both
\* extend from the same previously read end_date.
C3_ConcurrentPurchasesAddUp ==
  /\ \A u \in Users :
       (ActiveSubs(u) # {} /\ \A r \in Req : ~(preq[r].user = u /\ preq[r].pc = "as_write"))
         => \A x \in LatestActiveSubs(u) : x.end_date = sub_expected[u]
  /\ \A r1, r2 \in Req :
       (r1 # r2 /\ preq[r1].user = preq[r2].user
          /\ Activated(preq[r1]) /\ Activated(preq[r2]))
         => <<preq[r1].sub_id, preq[r1].sub_end>> # <<preq[r2].sub_id, preq[r2].sub_end>>

\* C5: an account's balance is non-negative in every reachable state when
\* debits happen only through the purchase flow, also with two concurrent
\* purchases by one account.
C5_BalanceNonNegative ==
  \A w \in users : w.balance >= 0

\* C31: process_referral returns False and changes nothing (referral_by not
\* written, no bonus credited, no notification sent) whenever the target account
\* does not exist, already has a referrer, was created longer ago than the
\* minute of grace, or the code belongs to no account or to the target itself;
\* so no account is ever its own referrer.
\* The call's inputs are judged on the table as it stood when the call was
\* made (call.before); an account is older than the minute of grace during the
\* whole call when it already was at time 0 (created_at is Tashkent time).
C31_RejectedReferralChangesNothing ==
  /\ [](\A w \in users : w.referral_by # w.user_id)
  /\ [][\A r \in Req :
          LET q == sreq[r]
              before == q.call.before
              rows == {w \in before : w.user_id = q.user}
              owners == {w \in before : w.referral_code = q.call.code}
          IN  (/\ q.call.direct
               /\ q.pc \notin {"idle", "done"} /\ sreq'[r].pc = "done"
               /\ \/ rows = {}
                  \/ \E w \in rows : w.referral_by # 0
                  \/ \E w \in rows : tz_offset - w.created_at > 1
                  \/ owners = {}
                  \/ \E w \in owners : w.user_id = q.user)
              => /\ sreq'[r].res = "False"
                 /\ ~sreq'[r].notified
                 /\ users' = before]_vars

\* C32: if sending the referral notification fails, process_referral still
\* returns True, and the referral_by written for the new account and the
\* 10 units credited to the referrer stay in the table.
C32_NotificationFailureKeepsReferral ==
  [][\A r \in Req :
       LET q == sreq[r]
           before == q.call.before
       IN  (/\ q.call.direct
            /\ q.pc = "pr_notify" /\ sreq'[r].pc # "pr_notify"
            /\ ~sreq'[r].notified)
           => /\ sreq'[r].pc = "done" /\ sreq'[r].res = "True"
              /\ \E w \in users' : w.user_id = q.user
              /\ \A w \in users' :
                   w.user_id = q.user => w.referral_by = q.referrer
              /\ \E w \in users' : w.user_id = q.referrer
              /\ \A w \in users', b \in before :
                   (w.user_id = q.referrer /\ b.user_id = q.referrer)
                     => w.balance = b.balance + 10]_vars

\* A direct call has returned True without its notification, the new account
\* carries a referrer and that referrer holds the bonus.
C32_Witness ==
  \E r \in Req :
    /\ sreq[r].call.direct
    /\ sreq[r].pc = "done" /\ sreq[r].res = "True" /\ ~sreq[r].notified
    /\ \E w \in users, p \in users :
         /\ w.user_id = sreq[r].user
         /\ w.referral_by = p.user_id
         /\ p.balance >= 10

\* C34: once an account's referral_by is set it never changes: no later or
\* concurrent process_referral call, with the same or a different code,
\* overwrites it.
C34_ReferrerNeverOverwritten ==
  [][\A w \in users, x \in users' :
       (w.user_id = x.user_id /\ w.referral_by # 0)
         => x.referral_by = w.referral_by]_vars

\* C37: for every account R the referral bonus credited to R's balance by
\* process_referral (the whole balance here: the accounts start at 0 and
\* nothing else credits or debits them) is 10 times the number of accounts
\* whose referral_by is R, the earnings get_user_referral_stats reports; also
\* when the credit fails after referral_by was written.  Stated for the states
\* in which no process_referral call is under way.
C37_BonusMatchesReferralCount ==
  (\A r \in Req : sreq[r].pc \in {"idle", "done", "error"})
    => \A w \in users :
         w.balance = 10 * Cardinality({x \in users : x.referral_by = w.user_id})

\* --- claims about the referral codes

\* C33: no two accounts ever hold the same referral_code, under any
\* interleaving of generate_referral_code calls for different accounts.
C33_ReferralCodesAreUnique ==
  \A w \in users, x \in users :
    (w.user_id # x.user_id /\ w.referral_code # "no_code")
      => w.referral_code # x.referral_code

\* A call found its drawn code free, another account took the code in the
\* meantime, and the call's UPDATE was refused.
C33_Witness ==
  \E r \in Req :
    /\ sreq[r].pc = "error" /\ sreq[r].res = "users_unique_violation"
    /\ \E w \in users : w.user_id # sreq[r].user /\ w.referral_code # "no_code"
    /\ \A w \in users : w.user_id = sreq[r].user => w.referral_code = "no_code"

\* C36: a select_plan purchase whose activate_subscription succeeded also
\* debits the balance by exactly the plan price and writes one payment record
\* of that amount with method 'balance': the subscription is never extended
\* without the matching debit, also when the debit or the payment INSERT fails.
C36_PurchaseIsAllOrNothing ==
  [][\A r \in Req :
       LET q == preq[r]
       IN  /\ (q.pc = "sp_debit" /\ preq'[r].pc # "sp_debit")
                => \A w \in users : w.user_id = q.user
                     => [w EXCEPT !.balance = @ - q.price] \in users'
           /\ (q.pc = "sp_payment" /\ preq'[r].pc # "sp_payment")
                => /\ Cardinality(payments' \ payments) = 1
                   /\ \A x \in payments' \ payments :
                        /\ x.user_id = q.user
                        /\ x.amount = q.price
                        /\ x.method = "balance"]_vars

\* C39: once generate_referral_code has returned a code c for an account, the
\* account's stored referral_code is c in every later state (so every later
\* call returns c), also when two calls for the account run concurrently: a
\* call that has returned holds the stored code, and a stored code never
\* changes.
C39_ReturnedCodeStaysStored ==
  /\ [](\A r \in Req :
          (sreq[r].pc = "done" /\ sreq[r].res \in {"R1", "R2"})
            => \A w \in users :
                 w.user_id = sreq[r].user => w.referral_code = sreq[r].res)
  /\ [][\A w \in users, x \in users' :
          (w.user_id = x.user_id /\ w.referral_code # "no_code")
            => x.referral_code = w.referral_code]_vars

\* --- claims about bans checked while the admin acts

\* C38: is_user_banned never removes a ban whose muted_until is later than
\* now: when an admin bans the account again between the check's read of an
\* expired record and its DELETE, the new record survives the check.
C38_CheckKeepsActiveBan ==
  [][\A r \in Req :
       (breq[r].pc = "iub_delete" /\ breq'[r].pc # "iub_delete")
         => \A row \in muted_users :
              (row.user_id = breq[r].user
                 /\ row.muted_until > clock + tz_offset)
                => row \in muted_users']_vars

\* --- claims about the subscription engine called directly

\* The day count of a plan, as the claims state it.
PlanDays(plan) ==
  CASE plan = "1_month" -> 30
    [] plan = "3_months" -> 90
    [] plan = "6_months" -> 180
    [] plan = "1_year" -> 365

\* C25: the total_deposited of an account never decreases, whatever the handlers
\* do: a purchase debits the balance only, a referral bonus credits the balance
\* only.
C25_TotalDepositedNeverDecreases ==
  [][\A w \in users :
       \E x \in users' :
         x.user_id = w.user_id /\ x.total_deposited >= w.total_deposited]_vars

\* A purchase has been paid from the balance: the payment is recorded, the
\* balance is below what the buyer started with, total_deposited is untouched.
C25_Witness ==
  \E w \in users, p \in payments, r \in Req :
    /\ preq[r].pc = "done" /\ preq[r].res = "activated" /\ preq[r].user = w.user_id
    /\ p.user_id = w.user_id /\ p.amount > 0
    /\ w.balance \in {5000 - p.amount, 15000 - p.amount}
    /\ w.total_deposited = 0

\* C26: invalid input is rejected before any mutation: activate_subscription
\* with a plan outside the four plans returns (False, None), create_payment with
\* a method other than 'balance' returns no payment id, and neither writes or
\* changes a row of subscriptions, payments or users.
C26_InvalidInputWritesNothing ==
  [][/\ \A r \in Req :
          (/\ preq[r].pc = "idle" /\ preq'[r].pc # "idle" /\ preq'[r].direct
           /\ preq'[r].plan \notin {"1_month", "3_months", "6_months", "1_year"})
            => /\ preq'[r].pc = "done" /\ preq'[r].res = "failed"
               /\ preq'[r].subscription_id = NoRow
               /\ subscriptions' = subscriptions /\ sub_seq' = sub_seq
               /\ payments' = payments /\ users' = users
     /\ (/\ pay_call'.n # pay_call.n /\ pay_call'.op = "create_payment"
         /\ pay_call'.method # "balance")
          => /\ pay_call'.ret = NoRow
             /\ payments' = payments /\ pay_seq' = pay_seq
             /\ subscriptions' = subscriptions /\ users' = users]_vars

\* Both rejections have happened, each after a valid call had written its row.
C26_Witness ==
  /\ pay_call.op = "create_payment" /\ pay_call.method = "click"
  /\ pay_call.ret = NoRow /\ payments # {}
  /\ \E r \in Req :
       /\ preq[r].pc = "done" /\ preq[r].direct /\ preq[r].plan = "2_weeks"
       /\ preq[r].res = "failed"
       /\ \E x \in subscriptions : x.user_id = preq[r].user

\* C14: activate_subscription for an account whose most recent active row has
\* end_date E later than now updates that same row to start_date = E and
\* end_date = E + days(plan) and returns its id; hence a second 30-day
\* purchase made before the window of a first one expires leaves end_date
\* equal to the time of the first purchase plus 60 days.
C14_ExtensionIsContiguous ==
  [][\A r \in Req : \A x \in subscriptions :
       LET q == preq[r] IN
       (/\ q.pc = "as_write" /\ preq'[r].pc # "as_write"
        /\ x.user_id = q.user /\ x.is_active /\ x.id = q.sub_id
        /\ \A y \in subscriptions :
             (y.user_id = q.user /\ y.is_active) => y.end_date <= x.end_date
        /\ x.end_date > q.current_time)
         => /\ subscriptions' =
                 (subscriptions \ {x}) \cup
                   {[x EXCEPT !.plan = q.plan, !.start_date = x.end_date,
                              !.end_date = x.end_date
                                             + PlanDays(q.plan) * MinutesPerDay]}
            /\ preq'[r].subscription_id = x.id
            /\ (/\ q.plan = "1_month"
                /\ x.end_date = x.start_date + 30 * MinutesPerDay)
                 => \E x2 \in subscriptions' :
                      /\ x2.id = x.id
                      /\ x2.end_date = x.start_date + 60 * MinutesPerDay]_vars

\* Two 30-day purchases were made in succession at time 0: the second found
\* the row of the first and left it ending 60 days after the first purchase.
C14_Witness ==
  \E r \in Req : \E x \in subscriptions :
    /\ sub_calls = 2
    /\ preq[r].pc = "done" /\ preq[r].direct /\ preq[r].res = "activated"
    /\ preq[r].plan = "1_month" /\ preq[r].sub_id = x.id
    /\ preq[r].subscription_id = x.id
    /\ x.start_date = 30 * MinutesPerDay /\ x.end_date = 60 * MinutesPerDay
    /\ Cardinality(subscriptions) = 1

\* C27: activate_subscription for an account whose most recent active row has
\* end_date not later than now updates that row in place (same id returned, no
\* new row) to start_date = now and end_date = now + days(plan); for an account
\* with no active row it inserts exactly one row with is_active = true,
\* start_date = now and end_date = now + days(plan).
C27_ExpiredOrAbsentStartsNow ==
  [][\A r \in Req :
       LET q == preq[r]
           active == {y \in subscriptions : y.user_id = q.user /\ y.is_active}
           window == [start_date |-> q.current_time,
                      end_date |-> q.current_time
                                     + PlanDays(q.plan) * MinutesPerDay]
       IN
       (q.pc = "as_write" /\ preq'[r].pc # "as_write" /\ q.direct)
         => /\ \A x \in active :
                 (/\ x.id = q.sub_id
                  /\ \A y \in active : y.end_date <= x.end_date
                  /\ x.end_date <= q.current_time)
                   => /\ subscriptions' =
                           (subscriptions \ {x}) \cup
                             {[x EXCEPT !.plan = q.plan,
                                        !.start_date = window.start_date,
                                        !.end_date = window.end_date]}
                      /\ preq'[r].subscription_id = x.id
            /\ active = {}
                 => \E n \in subscriptions' \ subscriptions :
                      /\ subscriptions' = subscriptions \cup {n}
                      /\ \A y \in subscriptions : y.id # n.id
                      /\ n = [id |-> n.id, user_id |-> q.user, plan |-> q.plan,
                              start_date |-> window.start_date,
                              end_date |-> window.end_date, is_active |-> TRUE]
                      /\ preq'[r].subscription_id = n.id]_vars

\* A 30-day window bought at time 0 had run out when the account bought again:
\* the one row it ever had now starts at the time of the second purchase.
C27_Witness ==
  \E r \in Req : \E x \in subscriptions :
    /\ preq[r].pc = "done" /\ preq[r].direct /\ preq[r].res = "activated"
    /\ preq[r].sub_id = x.id /\ preq[r].subscription_id = x.id
    /\ preq[r].sub_end = 30 * MinutesPerDay
    /\ preq[r].current_time > preq[r].sub_end
    /\ x.start_date = preq[r].current_time
    /\ x.end_date = x.start_date + PlanDays(preq[r].plan) * MinutesPerDay
    /\ {y \in subscriptions : y.user_id = x.user_id} = {x}

\* C28: every successful activate_subscription leaves the account's is_premium
\* flag true, and a flag that is true stays true in every later state, also once
\* the subscription's end_date has passed.
C28_PremiumFlagIsNeverCleared ==
  [][/\ \A w \in users :
          w.is_premium => \E x \in users' : x.user_id = w.user_id /\ x.is_premium
     /\ \A r \in Req :
          (preq[r].pc # "done" /\ preq'[r].pc = "done"
             /\ preq'[r].res = "activated")
            => \E x \in users' : x.user_id = preq[r].user /\ x.is_premium]_vars

\* The only subscription of a premium account ran out days ago and nobody is
\* buying: the account is still premium.
C28_Witness ==
  \E w \in users, x \in subscriptions :
    /\ w.is_premium /\ x.user_id = w.user_id
    /\ \A y \in subscriptions : y.user_id = w.user_id => y.end_date < clock + tz_offset
    /\ \A r \in Req : preq[r].pc = "idle"

\* C29: the end_date of a subscription row never decreases: no write of
\* activate_subscription, in calls made one after the other or concurrently and
\* with any mix of plans, stores an end_date earlier than the one it replaces.
C29_EndDateNeverDecreases ==
  [][\A x \in subscriptions : \A y \in subscriptions' :
       y.id = x.id => y.end_date >= x.end_date]_vars

\* C30: each account has at most one subscription row with is_active = true in
\* every reachable state, also after two concurrent first purchases.
C30_OneActiveRowPerAccount ==
  \A x \in subscriptions, y \in subscriptions :
    (x.user_id = y.user_id /\ x.is_active /\ y.is_active) => x = y

\* C17: activate_subscription neither reads nor changes the balance: called
\* for an account with balance 0 and a valid plan it succeeds, sets
\* is_premium = true, and leaves balance and total_deposited unchanged.
C17_EngineIgnoresBalance ==
  [][\A r \in Req :
       (preq'[r] # preq[r] /\ (preq[r].direct \/ preq'[r].direct))
         => /\ \A w \in users : \E w2 \in users' :
                 /\ w2.user_id = w.user_id
                 /\ w2.balance = w.balance
                 /\ w2.total_deposited = w.total_deposited
            /\ Cardinality(users') = Cardinality(users)
            /\ (/\ preq[r].pc = "idle"
                /\ preq'[r].plan \in {"1_month", "3_months", "6_months", "1_year"})
                 => preq'[r].pc = "as_select"
            /\ preq[r].pc \in {"as_select", "as_write"}
                 => preq'[r].pc \in {"as_write", "as_premium"}
            /\ preq[r].pc = "as_premium"
                 => /\ preq'[r].pc = "done" /\ preq'[r].res = "activated"
                    /\ \E w2 \in users' :
                         w2.user_id = preq[r].user /\ w2.is_premium]_vars

\* activate_subscription has returned success to an account whose balance
\* is 0; the account is premium and has its subscription row.
C17_Witness ==
  \E r \in Req : \E w \in users : \E x \in subscriptions :
    /\ preq[r].pc = "done" /\ preq[r].direct /\ preq[r].res = "activated"
    /\ w.user_id = preq[r].user /\ w.balance = 0 /\ w.total_deposited = 0
    /\ w.is_premium
    /\ x.id = preq[r].subscription_id /\ x.user_id = w.user_id /\ x.is_active

\* --- claims about the ledger

\* C23: a ban of an account that already has a ban record replaces the record:
\* each account has at most one ban record, and the record a ban writes carries
\* the muted_until of that ban (now + 36500 days), a NULL reason and the new
\* created timestamp, never the earlier muted_until plus the duration.
C23_BanReplacesRecord ==
  /\ [](\A x \in muted_users, y \in muted_users : x.user_id = y.user_id => x = y)
  /\ [][\A x \in muted_users' \ muted_users :
          /\ x.muted_until = clock + tz_offset + 36500 * 1440
          /\ x.reason = "NULL"
          /\ x.created_at = clock
          /\ \A y \in muted_users' : y.user_id = x.user_id => y = x]_vars

\* A check read an account's ban a hundred years ago; the account has been
\* banned again since and its single record carries the later muted_until.
C23_Witness ==
  \E r \in Req, x \in muted_users :
    /\ breq[r].pc = "done" /\ breq[r].is_banned
    /\ x.user_id = breq[r].user
    /\ x.muted_until = breq[r].until + 36500 * 1440
    /\ x.created_at = clock /\ clock > 0
    /\ \A y \in muted_users : y.user_id = x.user_id => y = x

\* C24: every operation that reports whether an account is banned
\* (is_user_banned, the list and the count of banned users, the admin's
\* user-info view) reports an account whose only ban record has its muted_until
\* in the past as not banned.
C24_ExpiredBanReportedAbsent ==
  [][\A r \in Req :
       (breq[r].pc \notin {"done", "shown"} /\ breq'[r].pc \in {"done", "shown"})
         => LET now == clock + tz_offset
                expired == {u \in Users :
                              /\ \E x \in muted_users : x.user_id = u
                              /\ \A x \in muted_users :
                                   x.user_id = u => x.muted_until < now}
                active == {x \in muted_users : x.muted_until > now}
            IN  /\ breq'[r].user \in expired => ~breq'[r].is_banned
                /\ breq'[r].listed \cap expired = {}
                /\ breq'[r].count <= Cardinality(active)]_vars

\* C16: is_user_banned returns (True, until) and leaves the ban record in place
\* when the stored muted_until is later than now; when it is not later than now
\* the call returns (False, None) and the record no longer exists when it
\* returns; with no record it returns (False, None).
C16_BanCheckOutcomes ==
  [][\A r \in Req :
       LET u == breq[r].user
           rows == {x \in muted_users : x.user_id = u}
           now == clock + tz_offset
       IN  /\ (breq[r].pc = "iub_select" /\ breq'[r].pc # "iub_select")
                => /\ rows = {}
                        => /\ breq'[r].pc = "done"
                           /\ ~breq'[r].is_banned /\ breq'[r].until = NoDate
                           /\ muted_users' = muted_users
                   /\ \A x \in rows :
                        /\ x.muted_until > now
                             => /\ breq'[r].pc = "done"
                                /\ breq'[r].is_banned
                                /\ breq'[r].until = x.muted_until
                                /\ muted_users' = muted_users
                        /\ x.muted_until <= now
                             => breq'[r].pc = "iub_delete"
           /\ (breq[r].pc = "iub_delete" /\ breq'[r].pc # "iub_delete")
                => /\ breq'[r].pc = "done"
                   /\ ~breq'[r].is_banned /\ breq'[r].until = NoDate
                   /\ \A x \in muted_users' : x.user_id # u
           /\ (breq[r].pc # "done" /\ breq'[r].pc = "done")
                => breq[r].pc \in {"iub_select", "iub_delete"}]_vars

\* A check has read a ban that ran out at this very minute, removed it and
\* answered (False, None).
C16_Witness ==
  \E r \in Req :
    /\ breq[r].pc = "done" /\ ~breq[r].is_banned /\ breq[r].until = NoDate
    /\ breq[r].banned_until = clock + tz_offset
    /\ \A x \in muted_users : x.user_id # breq[r].user

\* The sum of the amounts of the first n executed calls on account u
\* (only those with add_to_total when total is TRUE).
RECURSIVE SumOfAmounts(_, _, _)
SumOfAmounts(u, n, total) ==
  IF n = 0 THEN 0
  ELSE SumOfAmounts(u, n - 1, total)
         + (IF ledger_log[n].user = u /\ (total => ledger_log[n].add_to_total)
              THEN ledger_log[n].amount ELSE 0)

\* C8: update_user_balance adds amount to balance, and to total_deposited
\* exactly when add_to_total is true, and concurrent calls on one account
\* compose additively: the balance is the initial balance plus the sum of the
\* amounts of all calls executed, in whatever order they ran.
C8_BalanceUpdatesAddUp ==
  \A w \in users : \E w0 \in users_at_start :
    /\ w0.user_id = w.user_id
    /\ w.balance = w0.balance + SumOfAmounts(w.user_id, Len(ledger_log), FALSE)
    /\ w.total_deposited =
         w0.total_deposited + SumOfAmounts(w.user_id, Len(ledger_log), TRUE)

\* Two tasks were in flight together; +100 and -30 without add_to_total have
\* both run, the later-called one first: initial + 70, total unchanged.
C8_Witness ==
  \E r1, r2 \in Req : \E w \in users, w0 \in users_at_start :
    /\ r1 # r2 /\ lreq[r1].pc = "done" /\ lreq[r2].pc = "done"
    /\ lreq[r1].user = w.user_id /\ lreq[r2].user = w.user_id
    /\ lreq[r1].amount = 100 /\ lreq[r2].amount = -30
    /\ ~lreq[r1].add_to_total /\ ~lreq[r2].add_to_total
    /\ Len(ledger_log) = 2 /\ ledger_log[1].amount = -30 /\ ledger_log[2].amount = 100
    /\ w0.user_id = w.user_id
    /\ w.balance = w0.balance + 70
    /\ w.total_deposited = w0.total_deposited

\* --- claims about payments

TxnPresent(txn) == \E x \in payments : x.transaction_id = txn

\* C9: no two payment rows ever hold the same non-null transaction_id, in any
\* order of create_payment and update_payment_status calls; and a
\* create_payment whose transaction_id is already present writes no row and
\* returns no payment id.
C9_TransactionIdUnique ==
  /\ [](\A x, y \in payments :
          (x.transaction_id # NoTxn /\ x.transaction_id = y.transaction_id) => x = y)
  /\ [][(/\ pay_call'.n # pay_call.n
         /\ pay_call'.op = "create_payment"
         /\ pay_call'.txn # NoTxn
         /\ TxnPresent(pay_call'.txn))
        => (payments' = payments /\ pay_call'.ret = NoRow)]_vars

\* A create_payment with method 'balance' was refused for its transaction_id,
\* which a row holds that update_payment_status has completed.
C9_Witness ==
  /\ pay_call.op = "create_payment" /\ pay_call.method = "balance"
  /\ pay_call.txn # NoTxn /\ pay_call.ret = NoRow
  /\ \E x \in payments : x.transaction_id = pay_call.txn /\ x.status = "completed"
  /\ \E x \in payments : x.transaction_id = NoTxn

====
